---------------------------- MODULE Spec2Model ----------------------------
(***************************************************************************)
(* A model of the calculator: a lexer, a recursive-descent parser and a    *)
(* tree-walking interpreter for a Pascal-like subset.                      *)
(*                                                                         *)
(* A text is a sequence of characters, a character a one-character string  *)
(* (two characters outside ASCII carry their code point as their name).    *)
(* A stage that panics or never returns is recorded in the stage's status  *)
(* ("Panic", "Hang"); statuses propagate the way `?` and unwinding do.     *)
(***************************************************************************)
EXTENDS Integers, Sequences, FiniteSets, TLC

VARIABLES
    pc,             \* where the driver is: which objects exist, what has returned
    input,          \* how the driver made the text
    text,           \* Lexer.text
    pos,            \* Lexer.pos
    current_char,   \* Lexer.current_char
    token,          \* the token the driver's last direct get_next_token returned
    current_token,  \* Parser.current_token
    tree,           \* what the driver's direct Parser::parse returned
    global_scope,   \* Interpreter.global_scope
    visited,        \* inside interpret: what self.visit(tree) returned
    result,         \* what Interpreter::interpret returned
    eof_calls       \* the driver's direct calls that found the text exhausted

vars == <<pc, input, text, pos, current_char, token, current_token, tree,
          global_scope, visited, result, eof_calls>>

-----------------------------------------------------------------------------
(* Characters *)

\* '\0', the lexer's "no character" sentinel
NUL == "NUL"

\* a two-byte alphabetic character (e with acute accent)
EAcute == "U+00E9"

\* a two-byte character that is numeric but no decimal digit (superscript two)
SuperTwo == "U+00B2"

AsciiDigits == {"0", "1", "2", "3", "4", "5", "6", "7", "8", "9"}

AsciiLetters ==
    {"A", "B", "C", "D", "E", "F", "G", "H", "I", "J", "K", "L", "M",
     "N", "O", "P", "Q", "R", "S", "T", "U", "V", "W", "X", "Y", "Z",
     "a", "b", "c", "d", "e", "f", "g", "h", "i", "j", "k", "l", "m",
     "n", "o", "p", "q", "r", "s", "t", "u", "v", "w", "x", "y", "z"}

\* a whitespace test that knows the blank alone
IsWhitespace_blank(c) == c = " "

\* char::is_whitespace
IsWhitespace(c) == c \in {" ", "\t", "\n", "\r"}

\* char::is_alphabetic
IsAlphabetic(c) == c \in AsciiLetters \cup {EAcute}

\* char::is_numeric
IsNumeric(c) == c \in AsciiDigits \cup {SuperTwo}

\* char::is_alphanumeric
IsAlphanumeric(c) == IsAlphabetic(c) \/ IsNumeric(c)

\* the bytes of a character in UTF-8
CharBytes(c) == IF c \in {EAcute, SuperTwo} THEN 2 ELSE 1

\* String::len: the length of a text in bytes
ByteLen(t) == Len(t) + Cardinality({i \in 1..Len(t) : CharBytes(t[i]) = 2})

DigitVal(c) ==
    CASE c = "0" -> 0 [] c = "1" -> 1 [] c = "2" -> 2 [] c = "3" -> 3
      [] c = "4" -> 4 [] c = "5" -> 5 [] c = "6" -> 6 [] c = "7" -> 7
      [] c = "8" -> 8 [] c = "9" -> 9

-----------------------------------------------------------------------------
(* Numbers: i32 and f64 *)

I32Max == 2147483647
I32Min == -I32Max - 1

Abs(x) == IF x < 0 THEN -x ELSE x

RECURSIVE GCD(_, _)
GCD(a, b) == IF b = 0 THEN a ELSE GCD(b, a % b)

\* An f64 is held as the rational n/d it is the rounding of, in lowest terms
\* with d > 0; d = 0 holds the non-finite values (n = 1: +inf, n = -1: -inf,
\* n = 0: NaN) and <<0, -1>> is the negative zero.
Ratio(n, d) ==
    LET g == GCD(Abs(n), Abs(d)) IN
    IF d > 0 THEN [n |-> n \div g, d |-> d \div g]
             ELSE [n |-> (-n) \div g, d |-> (-d) \div g]

PosInf == [n |-> 1, d |-> 0]
NegInf == [n |-> -1, d |-> 0]
NaN == [n |-> 0, d |-> 0]
PosZero == [n |-> 0, d |-> 1]
NegZero == [n |-> 0, d |-> -1]

\* the sign bit of an f64 (NaN taken as positive)
SignBit(x) == x.n < 0 \/ x = NegZero
IsNaN(x) == x = NaN
IsInf(x) == x.d = 0 /\ x.n # 0
IsZero(x) == x.n = 0 /\ x.d # 0

\* i32 as f64: exact
I32ToF64(i) == [n |-> i, d |-> 1]


\* the double nearest to -x
FNeg(x) ==
    IF IsNaN(x) THEN NaN
    ELSE IF x = PosZero THEN NegZero
    ELSE IF x = NegZero THEN PosZero
    ELSE [n |-> -x.n, d |-> x.d]

\* the zero or infinity with the sign of a product or quotient
WithSign(negative, pos_value, neg_value) ==
    IF negative THEN neg_value ELSE pos_value

\* f64 + f64
FAdd(x, y) ==
    IF IsNaN(x) \/ IsNaN(y) THEN NaN
    ELSE IF IsInf(x) /\ IsInf(y) THEN (IF x = y THEN x ELSE NaN)
    ELSE IF IsInf(x) THEN x
    ELSE IF IsInf(y) THEN y
    ELSE IF IsZero(x) /\ IsZero(y)
         THEN (IF x = NegZero /\ y = NegZero THEN NegZero ELSE PosZero)
    ELSE IF IsZero(x) THEN y
    ELSE IF IsZero(y) THEN x
    ELSE Ratio(x.n * y.d + y.n * x.d, x.d * y.d)

\* f64 - f64
FSub(x, y) == FAdd(x, FNeg(y))

\* f64 * f64
FMul(x, y) ==
    LET negative == SignBit(x) # SignBit(y) IN
    IF IsNaN(x) \/ IsNaN(y) THEN NaN
    ELSE IF (IsInf(x) /\ IsZero(y)) \/ (IsZero(x) /\ IsInf(y)) THEN NaN
    ELSE IF IsInf(x) \/ IsInf(y) THEN WithSign(negative, PosInf, NegInf)
    ELSE IF IsZero(x) \/ IsZero(y) THEN WithSign(negative, PosZero, NegZero)
    ELSE Ratio(x.n * y.n, x.d * y.d)

\* f64 / f64: a zero divisor gives an infinity or NaN, never an error
FDiv(x, y) ==
    LET negative == SignBit(x) # SignBit(y) IN
    IF IsNaN(x) \/ IsNaN(y) THEN NaN
    ELSE IF (IsInf(x) /\ IsInf(y)) \/ (IsZero(x) /\ IsZero(y)) THEN NaN
    ELSE IF IsInf(x) \/ IsZero(y) THEN WithSign(negative, PosInf, NegInf)
    ELSE IF IsInf(y) \/ IsZero(x) THEN WithSign(negative, PosZero, NegZero)
    ELSE Ratio(x.n * y.d, x.d * y.n)

\* f64 as i32: truncates toward zero, saturates, NaN gives 0
F64ToI32(x) ==
    IF IsNaN(x) \/ IsZero(x) THEN 0
    ELSE IF x = PosInf THEN I32Max
    ELSE IF x = NegInf THEN I32Min
    ELSE IF x.n >= 0 THEN x.n \div x.d
    ELSE -((-x.n) \div x.d)

\* floor(2^31 / a) for a >= 2, computed below 2^31
Q31(a) == (I32Max \div a) + (IF I32Max % a = a - 1 THEN 1 ELSE 0)

\* floor(|a| / b) for a < 0 < b, computed below 2^31
NegMagDiv(a, b) ==
    LET m == -(a + 1) IN (m \div b) + (IF m % b = b - 1 THEN 1 ELSE 0)

\* i32 / i32 where it is defined (b # 0, not MIN / -1): truncates toward zero
TruncDiv(a, b) ==
    IF a >= 0 /\ b > 0 THEN a \div b
    ELSE IF a >= 0 THEN (IF b = I32Min THEN 0 ELSE -(a \div (-b)))
    ELSE IF b > 0 THEN -NegMagDiv(a, b)
    ELSE IF b = I32Min THEN (IF a = I32Min THEN 1 ELSE 0)
    ELSE NegMagDiv(a, -b)

\* whether the exact a + b is an i32
AddFits(a, b) ==
    /\ ~(b > 0 /\ a > I32Max - b)
    /\ ~(b < 0 /\ a < I32Min - b)

\* a + b modulo 2^32, as an i32
WrapAdd(a, b) ==
    IF AddFits(a, b) THEN a + b
    ELSE IF b > 0 THEN (a + I32Min) + (b + I32Min)
    ELSE (a - I32Min) + (b - I32Min)

\* whether the exact a - b is an i32
SubFits(a, b) ==
    /\ ~(b < 0 /\ a > I32Max + b)
    /\ ~(b > 0 /\ a < I32Min + b)

\* a - b modulo 2^32, as an i32
WrapSub(a, b) ==
    IF SubFits(a, b) THEN a - b
    ELSE IF b < 0 THEN (a + I32Min) - (b - I32Min)
    ELSE (a - I32Min) - (b + I32Min)

\* whether the exact a * b is an i32
MulFits(a, b) ==
    IF a = 0 \/ b = 0 \/ a = 1 \/ b = 1 THEN TRUE
    ELSE IF a = -1 THEN b # I32Min
    ELSE IF b = -1 THEN a # I32Min
    ELSE IF a > 0 /\ b > 0 THEN a <= I32Max \div b
    ELSE IF a > 0 THEN b >= -Q31(a)
    ELSE IF b > 0 THEN a >= -Q31(b)
    ELSE a # I32Min /\ b # I32Min /\ (-a) <= I32Max \div (-b)

\* byte i (0 the lowest) of the two's complement form of an i32
Byte(a, i) ==
    CASE i = 0 -> a % 256
      [] i = 1 -> (a \div 256) % 256
      [] i = 2 -> (a \div 65536) % 256
      [] i = 3 -> (a \div 16777216) % 256

\* a * b modulo 2^32, as an i32: the long multiplication of the bytes, the
\* low and the high 16 bits of the product kept apart
WrapMulBytes(a, b) ==
    LET c0 == Byte(a, 0) * Byte(b, 0)
        c1 == Byte(a, 0) * Byte(b, 1) + Byte(a, 1) * Byte(b, 0)
        c2 == Byte(a, 0) * Byte(b, 2) + Byte(a, 1) * Byte(b, 1)
              + Byte(a, 2) * Byte(b, 0)
        c3 == Byte(a, 0) * Byte(b, 3) + Byte(a, 1) * Byte(b, 2)
              + Byte(a, 2) * Byte(b, 1) + Byte(a, 3) * Byte(b, 0)
        low == c0 + (c1 % 256) * 256
        high == ((low \div 65536) + (c1 \div 256) + c2 + (c3 % 256) * 256)
                % 65536
    IN (IF high >= 32768 THEN high - 65536 ELSE high) * 65536 + (low % 65536)

\* a * b modulo 2^32, as an i32
WrapMul(a, b) == IF MulFits(a, b) THEN a * b ELSE WrapMulBytes(a, b)

-----------------------------------------------------------------------------
(* InterpreterType: Integer(i32) | Real(f64), one record shape for both *)

Integer(i) == [tag |-> "Integer", n |-> i, d |-> 1]
Real(x) == [tag |-> "Real", n |-> x.n, d |-> x.d]

\* the f64 inside a Real
F64Of(v) == [n |-> v.n, d |-> v.d]

\* `left as f64`, `right as f64`: the operand of a mixed or real operation
AsF64(v) == IF v.tag = "Integer" THEN I32ToF64(v.n) ELSE F64Of(v)

\* `left as i32`, `right as i32`: the operand of integer_div
AsI32(v) == IF v.tag = "Integer" THEN v.n ELSE F64ToI32(F64Of(v))

\* An operation's outcome: a value, or a panic of the arithmetic.
Value(v) == [st |-> "Ok", v |-> v]
ArithPanic == [st |-> "Panic", v |-> Integer(0)]

\* An i32 operation that overflows panics when the build checks overflow
\* (debug) and wraps when it does not (release).
Overflowing(fits, exact, wrapped, overflow_checks) ==
    IF fits THEN Value(Integer(exact))
    ELSE IF overflow_checks THEN ArithPanic
    ELSE Value(Integer(wrapped))

\* impl Neg for InterpreterType
neg(v, overflow_checks) ==
    IF v.tag = "Integer"
    THEN Overflowing(v.n # I32Min, -v.n, I32Min, overflow_checks)
    ELSE Value(Real(FNeg(F64Of(v))))

\* an addition that keeps the Integer tag when only one operand has it
add_integer(left, right, overflow_checks) ==
    IF left.tag = "Integer" /\ right.tag = "Integer"
    THEN Overflowing(AddFits(left.n, right.n), left.n + right.n,
                     WrapAdd(left.n, right.n), overflow_checks)
    ELSE IF left.tag = "Integer" \/ right.tag = "Integer"
    THEN Value(Integer(F64ToI32(FAdd(AsF64(left), AsF64(right)))))
    ELSE Value(Real(FAdd(AsF64(left), AsF64(right))))

\* impl Add for InterpreterType
add(left, right, overflow_checks) ==
    IF left.tag = "Integer" /\ right.tag = "Integer"
    THEN Overflowing(AddFits(left.n, right.n), left.n + right.n,
                     WrapAdd(left.n, right.n), overflow_checks)
    ELSE Value(Real(FAdd(AsF64(left), AsF64(right))))

\* impl Sub for InterpreterType
sub(left, right, overflow_checks) ==
    IF left.tag = "Integer" /\ right.tag = "Integer"
    THEN Overflowing(SubFits(left.n, right.n), left.n - right.n,
                     WrapSub(left.n, right.n), overflow_checks)
    ELSE Value(Real(FSub(AsF64(left), AsF64(right))))

\* impl Mul for InterpreterType
mul(left, right, overflow_checks) ==
    IF left.tag = "Integer" /\ right.tag = "Integer"
    THEN Overflowing(MulFits(left.n, right.n), left.n * right.n,
                     WrapMul(left.n, right.n), overflow_checks)
    ELSE Value(Real(FMul(AsF64(left), AsF64(right))))

\* a division that stays in the integers where the quotient is whole
div_exact_integer(left, right) ==
    IF /\ left.tag = "Integer" /\ right.tag = "Integer"
       /\ right.n > 0 /\ left.n >= 0 /\ left.n % right.n = 0
    THEN Value(Integer(left.n \div right.n))
    ELSE Value(Real(FDiv(AsF64(left), AsF64(right))))

\* impl Div for InterpreterType: always Real, also between two Integers
div(left, right) == Value(Real(FDiv(AsF64(left), AsF64(right))))

\* an integer division that rounds toward negative infinity
integer_div_flooring(left, right) ==
    IF AsI32(right) = 0 \/ (AsI32(left) = I32Min /\ AsI32(right) = -1)
    THEN ArithPanic
    ELSE IF AsI32(right) > 0
         THEN Value(Integer(AsI32(left) \div AsI32(right)))
    ELSE Value(Integer(TruncDiv(AsI32(left), AsI32(right))))

\* InterpreterType::integer_div: i32 division of the operands cast to i32;
\* it panics on a zero divisor and on MIN / -1, with or without overflow checks
integer_div(left, right) ==
    LET l == AsI32(left)
        r == AsI32(right)
    IN IF r = 0 \/ (l = I32Min /\ r = -1) THEN ArithPanic
       ELSE Value(Integer(TruncDiv(l, r)))

-----------------------------------------------------------------------------
(* Tokens *)

\* TokenValue: Int(i32) | Real(f64) | Str(String), one record shape for all
IntValue(i) == [vt |-> "Int", n |-> i, d |-> 1, s |-> <<>>]
RealValue(x) == [vt |-> "Real", n |-> x.n, d |-> x.d, s |-> <<>>]
StrValue(s) == [vt |-> "Str", n |-> 0, d |-> 1, s |-> s]

\* Token::new
Token(kind, value) == [kind |-> kind, value |-> value]

\* the token of an exhausted input, and of a character no rule matches
EOFToken == Token("EOF", StrValue(<<>>))

\* RESERVED_KEYWORDS, in the order id() searches it.  The kinds of the type
\* keywords REAL and INTEGER are the kinds of the numeric literals.
RESERVED_KEYWORDS ==
    << <<"Begin", <<"B", "E", "G", "I", "N">> >>,
       <<"End", <<"E", "N", "D">> >>,
       <<"Program", <<"P", "R", "O", "G", "R", "A", "M">> >>,
       <<"Var", <<"V", "A", "R">> >>,
       <<"Real", <<"R", "E", "A", "L">> >>,
       <<"Integer", <<"I", "N", "T", "E", "G", "E", "R">> >>,
       <<"IntegerDivide", <<"D", "I", "V">> >> >>

-----------------------------------------------------------------------------
(* Lexer.  A lexer value L is [pos, current_char, st]: the two fields the  *)
(* code mutates and the status of the call under way ("Ok", "Panic",       *)
(* "Hang").  A call on a lexer whose status is not "Ok" does nothing.      *)

\* Lexer::new: panics on the empty text (chars().nth(0) is None)
NewLexer(t) ==
    IF Len(t) = 0 THEN [pos |-> 0, current_char |-> NUL, st |-> "Panic"]
    ELSE [pos |-> 0, current_char |-> t[1], st |-> "Ok"]

\* Lexer::advance.  pos counts characters where it indexes (chars().nth) and
\* is compared with the length in bytes: past the last character of a text
\* holding a multi-byte character, nth is None and unwrap panics.
advance(t, L) ==
    IF L.st # "Ok" THEN L
    ELSE LET p == L.pos + 1 IN
         IF ByteLen(t) = 0 THEN [L EXCEPT !.st = "Panic"]
         ELSE IF p > ByteLen(t) - 1
              THEN [L EXCEPT !.pos = p, !.current_char = NUL]
         ELSE IF p < Len(t)
              THEN [L EXCEPT !.pos = p, !.current_char = t[p + 1]]
         ELSE [L EXCEPT !.pos = p, !.st = "Panic"]

RECURSIVE skip_whitespace(_, _)
\* Lexer::skip_whitespace
skip_whitespace(t, L) ==
    IF L.st = "Ok" /\ L.current_char # NUL /\ IsWhitespace(L.current_char)
    THEN skip_whitespace(t, advance(t, L))
    ELSE L

RECURSIVE skip_comment(_, _)
\* Lexer::skip_comment: advances until '}'.  Past the end of the text the
\* current character is '\0' for ever and the loop never ends.
skip_comment(t, L) ==
    IF L.st # "Ok" THEN L
    ELSE IF L.current_char = "}" THEN advance(t, L)
    ELSE IF L.current_char = NUL /\ L.pos >= Len(t) THEN [L EXCEPT !.st = "Hang"]
    ELSE skip_comment(t, advance(t, L))

RECURSIVE ScanNumeric(_, _, _)
\* the loops of number(): push the current character and advance while it
\* is numeric; gives the lexer and the characters pushed
ScanNumeric(t, L, acc) ==
    IF L.st = "Ok" /\ L.current_char # NUL /\ IsNumeric(L.current_char)
    THEN ScanNumeric(t, advance(t, L), Append(acc, L.current_char))
    ELSE [L |-> L, s |-> acc]

RECURSIVE ScanAlphanumeric(_, _, _)
\* the loop of id(): push and advance while the character is alphanumeric
ScanAlphanumeric(t, L, acc) ==
    IF L.st = "Ok" /\ L.current_char # NUL /\ IsAlphanumeric(L.current_char)
    THEN ScanAlphanumeric(t, advance(t, L), Append(acc, L.current_char))
    ELSE [L |-> L, s |-> acc]

RECURSIVE ParseDigits(_, _)
\* the value of a run of ASCII digits read after the value acc, or -1 when
\* it passes i32::MAX
ParseDigits(s, acc) ==
    IF s = <<>> THEN acc
    ELSE LET dg == DigitVal(Head(s)) IN
         IF acc > (I32Max - dg) \div 10 THEN -1
         ELSE ParseDigits(Tail(s), acc * 10 + dg)

RECURSIVE Pow10(_)
Pow10(k) == IF k = 0 THEN 1 ELSE 10 * Pow10(k - 1)

\* str::parse::<i32> of the digits number() collected: Err (-1 here) for a
\* character that is no ASCII digit and for a value above i32::MAX
ParseI32(s) ==
    IF \E i \in 1..Len(s) : s[i] \notin AsciiDigits THEN -1
    ELSE ParseDigits(s, 0)

\* str::parse::<f64> of "digits.digits" (the fraction may be empty: "3."
\* parses as 3.0): the value, or NaN standing for Err
ParseF64(whole, frac) ==
    IF \E i \in 1..Len(whole) : whole[i] \notin AsciiDigits THEN NaN
    ELSE IF \E i \in 1..Len(frac) : frac[i] \notin AsciiDigits THEN NaN
    ELSE Ratio(ParseDigits(whole, 0) * Pow10(Len(frac)) + ParseDigits(frac, 0),
               Pow10(Len(frac)))

\* names an intermediate value for what follows
With(x, Rest(_)) == Rest(x)

\* Lexer::number: digits, then a '.' and digits if a '.' follows at once.
\* Both parse().unwrap() calls panic on Err.
number(t, L) ==
    With(ScanNumeric(t, L, <<>>), LAMBDA whole :
    IF whole.L.st # "Ok" THEN [L |-> whole.L, tok |-> EOFToken]
    ELSE IF whole.L.current_char = "."
    THEN With(ScanNumeric(t, advance(t, whole.L), <<>>), LAMBDA frac :
         With(ParseF64(whole.s, frac.s), LAMBDA x :
         IF frac.L.st # "Ok" THEN [L |-> frac.L, tok |-> EOFToken]
         ELSE IF IsNaN(x)
              THEN [L |-> [frac.L EXCEPT !.st = "Panic"], tok |-> EOFToken]
         ELSE [L |-> frac.L, tok |-> Token("Real", RealValue(x))]))
    ELSE With(ParseI32(whole.s), LAMBDA i :
         IF i < 0 THEN [L |-> [whole.L EXCEPT !.st = "Panic"], tok |-> EOFToken]
         ELSE [L |-> whole.L, tok |-> Token("Integer", IntValue(i))]))

\* Lexer::peek: None is NUL here; the third outcome is the unwrap panic
peek(t, L) ==
    LET peek_pos == L.pos + 1 IN
    IF ByteLen(t) = 0 THEN "Panic"
    ELSE IF peek_pos > ByteLen(t) - 1 THEN NUL
    ELSE IF peek_pos < Len(t) THEN t[peek_pos + 1]
    ELSE "Panic"

RECURSIVE KeywordKind_prefix(_, _)
\* a search that takes a word for the keyword it begins with
KeywordKind_prefix(s, i) ==
    IF i > Len(RESERVED_KEYWORDS) THEN "Identifier"
    ELSE IF /\ Len(s) >= Len(RESERVED_KEYWORDS[i][2])
            /\ SubSeq(s, 1, Len(RESERVED_KEYWORDS[i][2])) = RESERVED_KEYWORDS[i][2]
         THEN RESERVED_KEYWORDS[i][1]
    ELSE KeywordKind_prefix(s, i + 1)

RECURSIVE KeywordKind(_, _)
\* the search of RESERVED_KEYWORDS in id(): the kind of the first entry whose
\* text is s from entry i on, "Identifier" when there is none
KeywordKind(s, i) ==
    IF i > Len(RESERVED_KEYWORDS) THEN "Identifier"
    ELSE IF RESERVED_KEYWORDS[i][2] = s THEN RESERVED_KEYWORDS[i][1]
    ELSE KeywordKind(s, i + 1)

\* Lexer::id
id(t, L) ==
    With(ScanAlphanumeric(t, L, <<>>), LAMBDA run :
    [L |-> run.L, tok |-> Token(KeywordKind(run.s, 1), StrValue(run.s))])

\* the single-character arms of the match in get_next_token
PunctuationKind(c) ==
    CASE c = "+" -> "Plus" [] c = "-" -> "Minus" [] c = "*" -> "Multiply"
      [] c = "/" -> "FloatDivide" [] c = "(" -> "LParen" [] c = ")" -> "RParen"
      [] c = ":" -> "Colon" [] c = ";" -> "Semi" [] c = "." -> "Dot"
      [] c = "," -> "Comma" [] OTHER -> "EOF"

RECURSIVE get_next_token_advancing(_, _)
\* a get_next_token that steps on when it finds the text exhausted
get_next_token_advancing(t, L) ==
    LET c == L.current_char IN
    IF L.st # "Ok" THEN [L |-> L, tok |-> EOFToken]
    ELSE IF c = NUL THEN [L |-> advance(t, L), tok |-> EOFToken]
    ELSE IF IsWhitespace(c)
         THEN get_next_token_advancing(t, skip_whitespace(t, L))
    ELSE IF c = "{"
         THEN get_next_token_advancing(t, skip_comment(t, advance(t, L)))
    ELSE IF IsAlphabetic(c) THEN id(t, L)
    ELSE IF IsNumeric(c) THEN number(t, L)
    ELSE IF c = ":" /\ peek(t, L) = "Panic"
         THEN [L |-> [L EXCEPT !.st = "Panic"], tok |-> EOFToken]
    ELSE IF c = ":" /\ peek(t, L) = "="
         THEN [L |-> advance(t, advance(t, L)),
               tok |-> Token("Assign", StrValue(<<":", "=">>))]
    ELSE IF PunctuationKind(c) = "EOF" THEN [L |-> L, tok |-> EOFToken]
    ELSE [L |-> advance(t, L), tok |-> Token(PunctuationKind(c), StrValue(<<c>>))]

RECURSIVE get_next_token(_, _)
\* Lexer::get_next_token: gives the lexer after the call and the token.  The
\* last arm of the match answers a character no rule matches with an EOF
\* token and does not advance.
get_next_token(t, L) ==
    LET c == L.current_char IN
    IF L.st # "Ok" THEN [L |-> L, tok |-> EOFToken]
    ELSE IF c = NUL THEN [L |-> L, tok |-> EOFToken]
    ELSE IF IsWhitespace(c) THEN get_next_token(t, skip_whitespace(t, L))
    ELSE IF c = "{" THEN get_next_token(t, skip_comment(t, advance(t, L)))
    ELSE IF IsAlphabetic(c) THEN id(t, L)
    ELSE IF IsNumeric(c) THEN number(t, L)
    ELSE IF c = ":" /\ peek(t, L) = "Panic"
         THEN [L |-> [L EXCEPT !.st = "Panic"], tok |-> EOFToken]
    ELSE IF c = ":" /\ peek(t, L) = "="
         THEN [L |-> advance(t, advance(t, L)),
               tok |-> Token("Assign", StrValue(<<":", "=">>))]
    ELSE IF PunctuationKind(c) = "EOF" THEN [L |-> L, tok |-> EOFToken]
    ELSE [L |-> advance(t, L), tok |-> Token(PunctuationKind(c), StrValue(<<c>>))]

-----------------------------------------------------------------------------
(* Parser.  A parser value ps is [L, current_token].  A production gives   *)
(* [st, ps, node]: st is "Ok", "Err" (a ParserError; its message is always *)
(* "Invalid syntax", get_next_token never returning None), "Panic" or      *)
(* "Hang"; a production whose part does not end "Ok" ends as that part     *)
(* did, as `?` and unwinding make it.                                      *)

NoOp == [type |-> "NoOp"]

POk(ps, node) == [st |-> "Ok", ps |-> ps, node |-> node]
PErr(ps) == [st |-> "Err", ps |-> ps, node |-> NoOp]
PPanic(ps) == [st |-> "Panic", ps |-> ps, node |-> NoOp]

\* `?` and unwinding: a part r that did not end "Ok" ends the whole as it
\* ended; after one that did, the rest goes on from what it gave
Try(r, Rest(_)) == IF r.st # "Ok" THEN r ELSE Rest(r)

\* self.current_token = self.lexer.get_next_token(), g being what the call gave
TakeToken(g) ==
    [st |-> g.L.st, ps |-> [L |-> g.L, current_token |-> g.tok], node |-> NoOp]

\* Parser::new: takes the first token from the lexer
NewParser(t, L) == TakeToken(get_next_token(t, L))

\* Parser::eat
eat(t, ps, kind) ==
    IF ps.current_token.kind = kind THEN TakeToken(get_next_token(t, ps.L))
    ELSE PErr(ps)

\* a variable that gives an empty node where no name stands
variable_lenient(t, ps) ==
    LET tok == ps.current_token IN
    IF tok.kind = "Identifier"
    THEN Try(eat(t, ps, "Identifier"), LAMBDA e :
         POk(e.ps, [type |-> "Var", token |-> tok]))
    ELSE POk(ps, NoOp)

\* Parser::variable
variable(t, ps) ==
    LET tok == ps.current_token IN
    IF tok.kind = "Identifier"
    THEN Try(eat(t, ps, "Identifier"), LAMBDA e :
         POk(e.ps, [type |-> "Var", token |-> tok]))
    ELSE PErr(ps)

RECURSIVE expr(_, _)
RECURSIVE factor(_, _)

\* a sign over the whole expression after it
factor_sign_loose(t, ps) ==
    LET tok == ps.current_token IN
    Try(eat(t, ps, tok.kind), LAMBDA e :
    Try(expr(t, e.ps), LAMBDA f :
    POk(f.ps, [type |-> "UnaryOp", node |-> f.node, token |-> tok])))

\* Parser::factor, the arms for a sign: a UnaryOp over the factor after it
factor_sign(t, ps) ==
    LET tok == ps.current_token IN
    Try(eat(t, ps, tok.kind), LAMBDA e :
    Try(factor(t, e.ps), LAMBDA f :
    POk(f.ps, [type |-> "UnaryOp", node |-> f.node, token |-> tok])))

\* Parser::factor, the arms for a token of kind Integer or Real: the token's
\* value is taken as an i32 or f64, which panics for the Str value the type
\* keywords INTEGER and REAL carry under the same kinds
factor_num(t, ps) ==
    LET tok == ps.current_token IN
    Try(eat(t, ps, tok.kind), LAMBDA e :
    IF tok.kind = "Integer"
    THEN (IF tok.value.vt # "Int" THEN PPanic(e.ps)
          ELSE POk(e.ps, [type |-> "Num", num |-> Integer(tok.value.n)]))
    ELSE (IF tok.value.vt # "Real" THEN PPanic(e.ps)
          ELSE POk(e.ps, [type |-> "Num", num |-> Real(tok.value)])))

\* a '(' that takes one factor, then ')'
factor_paren_factor(t, ps) ==
    Try(eat(t, ps, "LParen"), LAMBDA e1 :
    Try(factor(t, e1.ps), LAMBDA inner :
    Try(eat(t, inner.ps, "RParen"), LAMBDA e2 :
    POk(e2.ps, inner.node))))

\* Parser::factor, the arm for '(': the expression inside, then ')'
factor_paren(t, ps) ==
    Try(eat(t, ps, "LParen"), LAMBDA e1 :
    Try(expr(t, e1.ps), LAMBDA inner :
    Try(eat(t, inner.ps, "RParen"), LAMBDA e2 :
    POk(e2.ps, inner.node))))

\* Parser::factor
factor(t, ps) ==
    LET kind == ps.current_token.kind IN
    IF kind \in {"Plus", "Minus"} THEN factor_sign(t, ps)
    ELSE IF kind \in {"Integer", "Real"} THEN factor_num(t, ps)
    ELSE IF kind = "LParen" THEN factor_paren(t, ps)
    ELSE variable(t, ps)

\* the operator kinds the loop of term() folds
TermOperators == {"Multiply", "FloatDivide", "IntegerDivide"}

\* the operator kinds the loop of expr() folds
ExprOperators == {"Plus", "Minus"}

\* AstNode::BinaryOp
BinaryOp(left, tok, right) ==
    [type |-> "BinaryOp", left |-> left, right |-> right, token |-> tok]

RECURSIVE term_loop(_, _, _)
\* the loop of Parser::term: while an operator of term follows, fold the
\* factor after it into the left operand
term_loop(t, ps, node) ==
    LET tok == ps.current_token IN
    IF tok.kind \notin TermOperators THEN POk(ps, node)
    ELSE Try(eat(t, ps, tok.kind), LAMBDA e :
         Try(factor(t, e.ps), LAMBDA f :
         term_loop(t, f.ps, BinaryOp(node, tok, f.node))))

\* Parser::term
term(t, ps) ==
    Try(factor(t, ps), LAMBDA f : term_loop(t, f.ps, f.node))

RECURSIVE expr_loop_flat(_, _, _)
\* a loop that folds every binary operator at one level, factor by factor
expr_loop_flat(t, ps, node) ==
    LET tok == ps.current_token IN
    IF tok.kind \notin ExprOperators \cup TermOperators THEN POk(ps, node)
    ELSE Try(eat(t, ps, tok.kind), LAMBDA e :
         Try(factor(t, e.ps), LAMBDA f :
         expr_loop_flat(t, f.ps, BinaryOp(node, tok, f.node))))

\* a loop that takes all that follows the operator as its right operand
expr_loop_right(t, ps, node) ==
    LET tok == ps.current_token IN
    IF tok.kind \notin ExprOperators THEN POk(ps, node)
    ELSE Try(eat(t, ps, tok.kind), LAMBDA e :
         Try(expr(t, e.ps), LAMBDA r :
         POk(r.ps, BinaryOp(node, tok, r.node))))

RECURSIVE expr_loop(_, _, _)
\* the loop of Parser::expr: while '+' or '-' follows, fold the term after
\* it into the left operand
expr_loop(t, ps, node) ==
    LET tok == ps.current_token IN
    IF tok.kind \notin ExprOperators THEN POk(ps, node)
    ELSE Try(eat(t, ps, tok.kind), LAMBDA e :
         Try(term(t, e.ps), LAMBDA r :
         expr_loop(t, r.ps, BinaryOp(node, tok, r.node))))

\* Parser::expr
expr(t, ps) ==
    Try(term(t, ps), LAMBDA r : expr_loop(t, r.ps, r.node))

\* Parser::assignment_statement
assignment_statement(t, ps) ==
    Try(variable(t, ps), LAMBDA left :
    Try(eat(t, left.ps, "Assign"), LAMBDA e :
    Try(expr(t, e.ps), LAMBDA right :
    POk(right.ps, [type |-> "Assign", left |-> left.node,
                   right |-> right.node,
                   token |-> left.ps.current_token]))))

\* Parser::empty
empty(t, ps) == POk(ps, NoOp)

RECURSIVE statement(_, _)

RECURSIVE statement_list_loop(_, _, _)
\* the loop of Parser::statement_list: while ';' follows, one more statement
statement_list_loop(t, ps, results) ==
    IF ps.current_token.kind # "Semi" THEN POk(ps, results)
    ELSE Try(eat(t, ps, "Semi"), LAMBDA e :
         Try(statement(t, e.ps), LAMBDA other_node :
         statement_list_loop(t, other_node.ps,
                             Append(results, other_node.node))))

\* Parser::statement_list
statement_list(t, ps) ==
    Try(statement(t, ps), LAMBDA first :
    statement_list_loop(t, first.ps, <<first.node>>))

\* Parser::compound_statement
compound_statement(t, ps) ==
    Try(eat(t, ps, "Begin"), LAMBDA e1 :
    Try(statement_list(t, e1.ps), LAMBDA nodes :
    Try(eat(t, nodes.ps, "End"), LAMBDA e2 :
    POk(e2.ps, [type |-> "Compound", nodes |-> nodes.node]))))

\* Parser::statement
statement(t, ps) ==
    LET kind == ps.current_token.kind IN
    IF kind = "Begin" THEN compound_statement(t, ps)
    ELSE IF kind = "Identifier" THEN assignment_statement(t, ps)
    ELSE empty(t, ps)

\* Parser::type_spec: a token of kind Integer or Real, which the keywords
\* and the numeric literals both are
type_spec(t, ps) ==
    LET tok == ps.current_token IN
    IF tok.kind \notin {"Integer", "Real"} THEN PErr(ps)
    ELSE Try(eat(t, ps, tok.kind), LAMBDA e :
         POk(e.ps, [type |-> "Type", token |-> tok]))

RECURSIVE variable_declaration_loop(_, _, _)
\* the loop of Parser::variable_declaration: while ',' follows, one more
\* name; the Var node is made of the token after the ',' before eat checks it
variable_declaration_loop(t, ps, var_nodes) ==
    IF ps.current_token.kind # "Comma" THEN POk(ps, var_nodes)
    ELSE Try(eat(t, ps, "Comma"), LAMBDA e1 :
         Try(eat(t, e1.ps, "Identifier"), LAMBDA e2 :
         variable_declaration_loop(
             t, e2.ps,
             Append(var_nodes,
                    [type |-> "Var", token |-> e1.ps.current_token]))))

\* Parser::variable_declaration: one VarDecl for each name, in order
variable_declaration(t, ps) ==
    LET first == [type |-> "Var", token |-> ps.current_token] IN
    Try(eat(t, ps, "Identifier"), LAMBDA e1 :
    Try(variable_declaration_loop(t, e1.ps, <<first>>), LAMBDA names :
    Try(eat(t, names.ps, "Colon"), LAMBDA e2 :
    Try(type_spec(t, e2.ps), LAMBDA type_node :
    POk(type_node.ps,
        [i \in 1..Len(names.node) |->
            [type |-> "VarDecl", var_node |-> names.node[i],
             type_node |-> type_node.node]])))))

RECURSIVE declarations_loop(_, _, _)
\* the loop of Parser::declarations: while an identifier follows, one more
\* variable_declaration and its ';'
declarations_loop(t, ps, declarations) ==
    IF ps.current_token.kind # "Identifier" THEN POk(ps, declarations)
    ELSE Try(variable_declaration(t, ps), LAMBDA vd :
         Try(eat(t, vd.ps, "Semi"), LAMBDA e :
         declarations_loop(t, e.ps, declarations \o vd.node)))

\* Parser::declarations: after VAR the loop may run no time at all
declarations(t, ps) ==
    IF ps.current_token.kind # "Var" THEN POk(ps, <<>>)
    ELSE Try(eat(t, ps, "Var"), LAMBDA e : declarations_loop(t, e.ps, <<>>))

\* Parser::block
block(t, ps) ==
    Try(declarations(t, ps), LAMBDA decls :
    Try(compound_statement(t, decls.ps), LAMBDA body :
    POk(body.ps, [type |-> "Block", declarations |-> decls.node,
                  compound_statement |-> body.node])))

\* Parser::program, the arm for PROGRAM
program_header(t, ps) ==
    Try(eat(t, ps, "Program"), LAMBDA e1 :
    Try(variable(t, e1.ps), LAMBDA name :
    Try(eat(t, name.ps, "Semi"), LAMBDA e2 :
    Try(block(t, e2.ps), LAMBDA block_node :
    Try(eat(t, block_node.ps, "Dot"), LAMBDA e3 :
    POk(e3.ps, [type |-> "Program", name |-> name.node.token.value.s,
                block |-> block_node.node]))))))

\* Parser::program, the arm for BEGIN
program_compound(t, ps) ==
    Try(compound_statement(t, ps), LAMBDA body :
    Try(eat(t, body.ps, "Dot"), LAMBDA e :
    POk(e.ps, body.node)))

\* Parser::program, the match on the first token
program_node(t, ps) ==
    LET kind == ps.current_token.kind IN
    IF kind = "Program" THEN program_header(t, ps)
    ELSE IF kind = "Begin" THEN program_compound(t, ps)
    ELSE expr(t, ps)

\* Parser::program: a program, a dotted compound statement or an
\* expression, then the EOF token
program(t, ps) ==
    Try(program_node(t, ps), LAMBDA node :
    Try(eat(t, node.ps, "EOF"), LAMBDA e :
    POk(e.ps, node.node)))

\* a parse that returns what it recognised, whatever follows it
parse_unfinished(t, ps) == program_node(t, ps)

\* Parser::parse
parse(t, ps) ==
    Try(program(t, ps), LAMBDA node :
    IF node.ps.current_token.kind # "EOF" THEN PErr(node.ps) ELSE node)

-----------------------------------------------------------------------------
(* Interpreter.  visit gives [st, v, scope, msg]: st is "Ok", "Err" (with  *)
(* the message) or "Panic"; scope is global_scope after the visit.         *)

\* HashMap::new
EmptyScope == << >>

\* an insert that leaves a name already bound as it is
Insert_keep(scope, name, v) ==
    [k \in DOMAIN scope \cup {name} |->
        IF k \in DOMAIN scope THEN scope[k] ELSE v]

\* HashMap::insert
Insert(scope, name, v) ==
    [k \in DOMAIN scope \cup {name} |-> IF k = name THEN v ELSE scope[k]]

\* what visit gives for a node it has no arm for, and visit_compound always
Sentinel == Real(PosZero)

VOk(v, scope) == [st |-> "Ok", v |-> v, scope |-> scope, msg |-> ""]
VErr(msg, scope) == [st |-> "Err", v |-> Sentinel, scope |-> scope, msg |-> msg]
VPanic(scope) == [st |-> "Panic", v |-> Sentinel, scope |-> scope, msg |-> ""]

\* the match on token.kind in visit_binary_op, on the operands' values
apply_binary_op(kind, left, right, overflow_checks) ==
    CASE kind = "Plus" -> add(left, right, overflow_checks)
      [] kind = "Minus" -> sub(left, right, overflow_checks)
      [] kind = "Multiply" -> mul(left, right, overflow_checks)
      [] kind = "FloatDivide" -> div(left, right)
      [] kind = "IntegerDivide" -> integer_div(left, right)
      [] OTHER -> [st |-> "Err", v |-> Sentinel]

\* the match on token.kind in visit_unary_op, on the operand's value
apply_unary_op(kind, v, overflow_checks) ==
    CASE kind = "Plus" -> Value(v)
      [] kind = "Minus" -> neg(v, overflow_checks)
      [] OTHER -> [st |-> "Err", v |-> Sentinel]

\* the outcome of an operator as the outcome of the visit
OfOutcome(o, scope) ==
    IF o.st = "Ok" THEN VOk(o.v, scope)
    ELSE IF o.st = "Panic" THEN VPanic(scope)
    ELSE VErr("Invalid token", scope)

RECURSIVE visit(_, _, _)

\* Interpreter::visit_binary_op: the left operand, then the right one
visit_binary_op(node, scope, overflow_checks) ==
    Try(visit(node.left, scope, overflow_checks), LAMBDA left :
    Try(visit(node.right, left.scope, overflow_checks), LAMBDA right :
    OfOutcome(apply_binary_op(node.token.kind, left.v, right.v,
                              overflow_checks), right.scope)))

\* Interpreter::visit_unary_op
visit_unary_op(node, scope, overflow_checks) ==
    Try(visit(node.node, scope, overflow_checks), LAMBDA operand :
    OfOutcome(apply_unary_op(node.token.kind, operand.v, overflow_checks),
              operand.scope))

RECURSIVE visit_each_reversed(_, _, _)
\* a loop that visits the last node first
visit_each_reversed(nodes, scope, overflow_checks) ==
    IF nodes = <<>> THEN VOk(Sentinel, scope)
    ELSE Try(visit_each_reversed(Tail(nodes), scope, overflow_checks),
             LAMBDA rest :
         Try(visit(Head(nodes), rest.scope, overflow_checks), LAMBDA first :
         VOk(Sentinel, first.scope)))

RECURSIVE visit_each_reverting(_, _, _)
\* a loop that undoes its bindings when a node fails
visit_each_reverting(nodes, scope, overflow_checks) ==
    IF nodes = <<>> THEN VOk(Sentinel, scope)
    ELSE With(visit(Head(nodes), scope, overflow_checks), LAMBDA first :
         IF first.st # "Ok" THEN [first EXCEPT !.scope = scope]
         ELSE With(visit_each_reverting(Tail(nodes), first.scope,
                                        overflow_checks), LAMBDA rest :
              IF rest.st # "Ok" THEN [rest EXCEPT !.scope = scope] ELSE rest))

RECURSIVE visit_each(_, _, _)
\* the loops of visit_compound and visit_block: the nodes in order, stopping
\* at the first that fails
visit_each(nodes, scope, overflow_checks) ==
    IF nodes = <<>> THEN VOk(Sentinel, scope)
    ELSE Try(visit(Head(nodes), scope, overflow_checks), LAMBDA first :
         visit_each(Tail(nodes), first.scope, overflow_checks))

\* a visit_compound that gives the value of its last statement
visit_compound_last(node, scope, overflow_checks) ==
    IF node.nodes = <<>> THEN VOk(Sentinel, scope)
    ELSE Try(visit_each(SubSeq(node.nodes, 1, Len(node.nodes) - 1), scope,
                        overflow_checks), LAMBDA front :
         visit(node.nodes[Len(node.nodes)], front.scope, overflow_checks))

\* Interpreter::visit_compound
visit_compound(node, scope, overflow_checks) ==
    visit_each(node.nodes, scope, overflow_checks)

\* a visit_assignment that evaluates the right-hand side and binds nothing
visit_assignment_unbound(node, scope, overflow_checks) ==
    IF node.left.type # "Var" THEN VErr("Invalid token", scope)
    ELSE IF node.left.token.value.vt # "Str" THEN VPanic(scope)
    ELSE visit(node.right, scope, overflow_checks)

\* Interpreter::visit_assignment: the value is bound after the right-hand
\* side has been visited
visit_assignment(node, scope, overflow_checks) ==
    IF node.left.type # "Var" THEN VErr("Invalid token", scope)
    ELSE IF node.left.token.value.vt # "Str" THEN VPanic(scope)
    ELSE Try(visit(node.right, scope, overflow_checks), LAMBDA value :
         VOk(value.v, Insert(value.scope, node.left.token.value.s, value.v)))

\* a visit_var that reads a name never assigned as zero
visit_var_default(node, scope) ==
    IF node.token.value.vt # "Str" THEN VPanic(scope)
    ELSE IF node.token.value.s \in DOMAIN scope
         THEN VOk(scope[node.token.value.s], scope)
    ELSE VOk(Sentinel, scope)

\* Interpreter::visit_var
visit_var(node, scope) ==
    IF node.token.value.vt # "Str" THEN VPanic(scope)
    ELSE IF node.token.value.s \in DOMAIN scope
         THEN VOk(scope[node.token.value.s], scope)
    ELSE VErr("Variable not found", scope)

\* a visit_block that binds every declared name to zero before the compound
\* statement runs
visit_block_declaring(node, scope, overflow_checks) ==
    visit(node.compound_statement,
          [k \in DOMAIN scope
                 \cup {node.declarations[i].var_node.token.value.s :
                          i \in DOMAIN node.declarations} |->
              IF k \in DOMAIN scope THEN scope[k] ELSE Sentinel],
          overflow_checks)

\* Interpreter::visit_block: the declarations, then the compound statement
visit_block(node, scope, overflow_checks) ==
    Try(visit_each(node.declarations, scope, overflow_checks), LAMBDA decls :
    visit(node.compound_statement, decls.scope, overflow_checks))

\* the match on the AstType of a Num in visit, and visit_num
visit_num(node, scope) ==
    VOk(IF node.num.tag = "Integer" THEN Integer(node.num.n)
        ELSE Real(F64Of(node.num)), scope)

\* Interpreter::visit (visit_program is the visit of the block)
visit(node, scope, overflow_checks) ==
    CASE node.type = "Program" -> visit(node.block, scope, overflow_checks)
      [] node.type = "Block" -> visit_block(node, scope, overflow_checks)
      [] node.type = "BinaryOp" -> visit_binary_op(node, scope, overflow_checks)
      [] node.type = "Num" -> visit_num(node, scope)
      [] node.type = "UnaryOp" -> visit_unary_op(node, scope, overflow_checks)
      [] node.type = "Compound" -> visit_compound(node, scope, overflow_checks)
      [] node.type = "Assign" -> visit_assignment(node, scope, overflow_checks)
      [] node.type = "Var" -> visit_var(node, scope)
      [] OTHER -> VOk(Sentinel, scope)

\* what interpret returns: Ok(f64) or Err(String)
Ok(x) == [st |-> "Ok", value |-> x, msg |-> ""]
Err(msg) == [st |-> "Err", value |-> PosZero, msg |-> msg]

\* ParserError's Display of the one message the parser gives
ParserErrorText == "IntepreterError: Invalid syntax"

\* the matches of Interpreter::interpret on what visit returned: an Integer
\* leaves as the f64 of the same value
interpret_result(v) ==
    IF v.st = "Ok" THEN Ok(AsF64(v.v)) ELSE Err(v.msg)

-----------------------------------------------------------------------------
(* Input texts *)

\* tests::test_sum_with_many_digits: 123+456
TextSumManyDigits ==
    <<"1", "2", "3", "+", "4", "5", "6">>

\* the precedence example: 3 + 1 * 2
TextPrecedence ==
    <<"3", " ", "+", " ", "1", " ", "*", " ", "2">>

\* the associativity example: 10 - 3 - 2
TextAssociativity ==
    <<"1", "0", " ", "-", " ", "3", " ", "-", " ", "2">>

\* tests::test_parser_with_parentheses: (3 + 5) * 2
TextParentheses ==
    <<"(", "3", " ", "+", " ", "5", ")", " ", "*", " ", "2">>

\* tests::test_sum_multiplication_and_subtraction_and_division_using_parentheses: 7 + 3 * (10.0 / (12 / (3 + 1) - 1))
TextNestedParentheses ==
    <<"7", " ", "+", " ", "3", " ", "*", " ", "(", "1", "0", ".", "0", " ",
      "/", " ", "(", "1", "2", " ", "/", " ", "(", "3", " ", "+", " ", "1",
      ")", " ", "-", " ", "1", ")", ")">>

\* tests::test_unary_operations: 5 - - - + - (3 + 4) - +2
TextUnaryChain ==
    <<"5", " ", "-", " ", "-", " ", "-", " ", "+", " ", "-", " ", "(", "3",
      " ", "+", " ", "4", ")", " ", "-", " ", "+", "2">>

\* tests::test_division: 3 DIV 2
TextDivision ==
    <<"3", " ", "D", "I", "V", " ", "2">>

\* the type promotion example: 3 / 2
TextRealDivision ==
    <<"3", " ", "/", " ", "2">>

\* a zero divisor of '/': 3 / 0
TextFloatDivByZero ==
    <<"3", " ", "/", " ", "0">>

\* a zero divisor of DIV: 3 DIV 0
TextIntDivByZero ==
    <<"3", " ", "D", "I", "V", " ", "0">>

\* the program of the declarations example:
\* PROGRAM P; VAR x,y,z:INTEGER; BEGIN BEGIN x:=5; y:=x+10; z:=y DIV 3; END; END.
TextProgramP ==
    <<"P", "R", "O", "G", "R", "A", "M", " ", "P", ";", " ", "V", "A", "R",
      " ", "x", ",", "y", ",", "z", ":", "I", "N", "T", "E", "G", "E", "R",
      ";", " ", "B", "E", "G", "I", "N", " ", "B", "E", "G", "I", "N", " ",
      "x", ":", "=", "5", ";", " ", "y", ":", "=", "x", "+", "1", "0", ";",
      " ", "z", ":", "=", "y", " ", "D", "I", "V", " ", "3", ";", " ", "E",
      "N", "D", ";", " ", "E", "N", "D", ".">>

\* a failure after an assignment: BEGIN a := 5; b := c END.
TextPartialFailure ==
    <<"B", "E", "G", "I", "N", " ", "a", " ", ":", "=", " ", "5", ";", " ",
      "b", " ", ":", "=", " ", "c", " ", "E", "N", "D", ".">>

\* a name assigned twice, then read: BEGIN a := 1; a := 2; b := a END.
TextReassigned ==
    <<"B", "E", "G", "I", "N", " ", "a", " ", ":", "=", " ", "1", ";", " ",
      "a", " ", ":", "=", " ", "2", ";", " ", "b", " ", ":", "=", " ", "a",
      " ", "E", "N", "D", ".">>

\* texts that end where an operand or a closing token is due: 3 + (from
\* tests::test_parser_with_invalid_syntax), -, (3, BEGIN a := , BEGIN a := 5,
\* PROGRAM P; VAR x :
EarlyEndTexts ==
    {<<"3", " ", "+">>,
     <<"-">>,
     <<"(", "3">>,
     <<"B", "E", "G", "I", "N", " ", "a", " ", ":", "=", " ">>,
     <<"B", "E", "G", "I", "N", " ", "a", " ", ":", "=", " ", "5">>,
     <<"P", "R", "O", "G", "R", "A", "M", " ", "P", ";", " ", "V", "A", "R",
       " ", "x", " ", ":">>}

\* texts with a token after all the grammar takes: 3 4, 3 ), BEGIN END. 5
TrailingTexts ==
    {<<"3", " ", "4">>,
     <<"3", " ", ")">>,
     <<"B", "E", "G", "I", "N", " ", "E", "N", "D", ".", " ", "5">>}

\* tests::test_with_program of the lexer: PROGRAM Part10; VAR Integer : INTEGER;
TextKeywords ==
    <<"P", "R", "O", "G", "R", "A", "M", " ", "P", "a", "r", "t", "1", "0",
      ";", " ", "V", "A", "R", " ", "I", "n", "t", "e", "g", "e", "r", " ",
      ":", " ", "I", "N", "T", "E", "G", "E", "R", ";">>

\* tests::test_sum, test_sum_with_spaces, test_sum_with_many_spaces
SumTexts ==
    {<<"3", "+", "1">>,
     <<" ", "3", " ", "+", " ", "1">>,
     <<" ", " ", "3", " ", " ", " ", "+", " ", " ", "1">>}

\* programs around the VAR section: a literal as the type, no declaration
\* after VAR, no VAR at all, a Real assigned to a name declared INTEGER
\* PROGRAM P; VAR x : 5; BEGIN END.
\* PROGRAM P; VAR BEGIN END.
\* PROGRAM P; BEGIN END.
\* PROGRAM P; VAR x : INTEGER; BEGIN x := 1.5 END.
DeclarationTexts ==
    {<<"P", "R", "O", "G", "R", "A", "M", " ", "P", ";", " ", "V", "A", "R",
       " ", "x", " ", ":", " ", "5", ";", " ", "B", "E", "G", "I", "N", " ",
       "E", "N", "D", ".">>,
     <<"P", "R", "O", "G", "R", "A", "M", " ", "P", ";", " ", "V", "A", "R",
       " ", "B", "E", "G", "I", "N", " ", "E", "N", "D", ".">>,
     <<"P", "R", "O", "G", "R", "A", "M", " ", "P", ";", " ", "B", "E", "G",
       "I", "N", " ", "E", "N", "D", ".">>,
     <<"P", "R", "O", "G", "R", "A", "M", " ", "P", ";", " ", "V", "A", "R",
       " ", "x", " ", ":", " ", "I", "N", "T", "E", "G", "E", "R", ";", " ",
       "B", "E", "G", "I", "N", " ", "x", " ", ":", "=", " ", "1", ".", "5",
       " ", "E", "N", "D", ".">>}

\* digits with a '.' after them: 3. 3.. 3.+ 3.5 3.5.
DotTexts ==
    {<<"3", ".">>, <<"3", ".", ".">>, <<"3", ".", "+">>, <<"3", ".", "5">>, <<"3", ".", "5", ".">>}

\* a character no rule of the lexer matches: 3 $ 5
TextUnknownChar ==
    <<"3", " ", "$", " ", "5">>

\* a sum above i32::MAX: 2147483647+1
TextAddOverflow ==
    <<"2", "1", "4", "7", "4", "8", "3", "6", "4", "7", "+", "1">>

\* a difference below i32::MIN: 0-2147483647-2
TextSubOverflow ==
    <<"0", "-", "2", "1", "4", "7", "4", "8", "3", "6", "4", "7", "-", "2">>

\* a product above i32::MAX: 65536*65536
TextMulOverflow ==
    <<"6", "5", "5", "3", "6", "*", "6", "5", "5", "3", "6">>

\* an integer literal above i32::MAX: 2147483648
TextLiteralOverflow ==
    <<"2", "1", "4", "7", "4", "8", "3", "6", "4", "8">>

\* i32::MIN DIV -1: (0-2147483647-1) DIV (0-1)
TextDivMinByMinusOne ==
    <<"(", "0", "-", "2", "1", "4", "7", "4", "8", "3", "6", "4", "7", "-",
      "1", ")", " ", "D", "I", "V", " ", "(", "0", "-", "1", ")">>

\* a type keyword where an operand is due: 3 + INTEGER
TextTypeKeywordOperand ==
    <<"3", " ", "+", " ", "I", "N", "T", "E", "G", "E", "R">>

\* tests::test_assignment: BEGIN a := 5; END.
TextAssignment ==
    <<"B", "E", "G", "I", "N", " ", "a", " ", ":", "=", " ", "5", ";", " ",
      "E", "N", "D", ".">>

\* tests::test_with_program: the program with declarations
TextProgram ==
    <<"P", "R", "O", "G", "R", "A", "M", " ", "P", "a", "r", "t", "1", "0",
      ";", "\n", "V", "A", "R", "\n", " ", " ", " ", "x", ",", " ", "y",
      ",", " ", "z", " ", ":", " ", "I", "N", "T", "E", "G", "E", "R", ";",
      "\n", "B", "E", "G", "I", "N", " ", "{", "P", "a", "r", "t", "1",
      "0", "}", "\n", " ", " ", " ", "B", "E", "G", "I", "N", "\n", " ",
      " ", " ", "x", " ", ":", "=", " ", "5", ";", "\n", " ", " ", " ",
      "y", " ", ":", "=", " ", "x", " ", "+", " ", "1", "0", ";", "\n",
      " ", " ", " ", "z", " ", ":", "=", " ", "y", " ", "D", "I", "V", " ",
      "3", ";", "\n", " ", " ", " ", "E", "N", "D", ";", "\n", "E", "N",
      "D", ".", " ", " ">>

SampleTexts ==
    {TextSumManyDigits,
     TextPrecedence,
     TextAssociativity,
     TextParentheses,
     TextNestedParentheses,
     TextUnaryChain,
     TextDivision,
     TextRealDivision,
     TextFloatDivByZero,
     TextIntDivByZero,
     TextUnknownChar,
     TextAddOverflow,
     TextSubOverflow,
     TextMulOverflow,
     TextLiteralOverflow,
     TextDivMinByMinusOne,
     TextTypeKeywordOperand,
     TextAssignment,
     TextProgram,
     TextProgramP,
     TextPartialFailure,
     TextReassigned,
     TextKeywords}
    \cup EarlyEndTexts \cup TrailingTexts \cup SumTexts
    \cup DeclarationTexts \cup DotTexts

\* the largest operand value of the generated expressions
MaxOperand == 2

\* the longest run of signs of the generated expressions
MaxSigns == 2

\* the longest text generated character by character
MaxLen == 3

\* the characters of the texts generated character by character
Alphabet == {"3", "+", "(", ")", "$", "{", "}", EAcute}

ShortTexts == UNION {[1..n -> Alphabet] : n \in 0..MaxLen}

DigitChar(k) == CHOOSE c \in AsciiDigits : DigitVal(c) = k

RECURSIVE Digits(_)
\* the decimal text of a natural number
Digits(k) ==
    IF k < 10 THEN <<DigitChar(k)>>
    ELSE Digits(k \div 10) \o <<DigitChar(k % 10)>>

\* An operand of a generated expression: the integer literal k, or the real
\* literal "k.5".
IntOperand(k) == [k |-> k, half |-> FALSE]
HalfOperand(k) == [k |-> k, half |-> TRUE]

SmallInts == {IntOperand(k) : k \in 0..MaxOperand}
Halves == {HalfOperand(k) : k \in 0..MaxOperand}
\* integer literals near and at i32::MAX
BigInts == {IntOperand(k) : k \in {46341, 65536, I32Max - 1, I32Max}}

OperandText(a) == IF a.half THEN Digits(a.k) \o <<".", "5">> ELSE Digits(a.k)

\* the value the literal denotes
OperandValue(a) ==
    IF a.half THEN Real(Ratio(2 * a.k + 1, 2)) ELSE Integer(a.k)

BinaryOperators ==
    {"Plus", "Minus", "Multiply", "FloatDivide", "IntegerDivide"}

\* the characters of a binary operator
OperatorChars(kind) ==
    CASE kind = "Plus" -> <<"+">>
      [] kind = "Minus" -> <<"-">>
      [] kind = "Multiply" -> <<"*">>
      [] kind = "FloatDivide" -> <<"/">>
      [] kind = "IntegerDivide" -> <<"D", "I", "V">>

\* a binary operator as the texts write it, a space on either side
OperatorText(kind) == <<" ">> \o OperatorChars(kind) \o <<" ">>

\* the runs of 1 to MaxSigns unary signs
SignRuns == UNION {[1..n -> {"+", "-"}] : n \in 1..MaxSigns}

\* An input: how the driver made the text it hands to Lexer::new.
Input(form, txt, a, op1, b, op2, c, signs) ==
    [form |-> form, txt |-> txt, a |-> a, op1 |-> op1, b |-> b, op2 |-> op2,
     c |-> c, signs |-> signs]

Raw(txt) ==
    Input("raw", txt, IntOperand(0), "Plus", IntOperand(0), "Plus",
          IntOperand(0), <<>>)
Binary(a, op1, b) ==
    Input("binary", <<>>, a, op1, b, "Plus", IntOperand(0), <<>>)
Ternary(form, a, op1, b, op2, c) == Input(form, <<>>, a, op1, b, op2, c, <<>>)
Signed(form, signs, a, op1, b) ==
    Input(form, <<>>, a, op1, b, "Plus", IntOperand(0), signs)

\* the texts that are one word: the keywords, and words that are none by
\* their case, a digit or a letter more or less
Words ==
    {<<"P", "R", "O", "G", "R", "A", "M">>, <<"V", "A", "R">>,
     <<"B", "E", "G", "I", "N">>, <<"E", "N", "D">>, <<"D", "I", "V">>,
     <<"I", "N", "T", "E", "G", "E", "R">>, <<"R", "E", "A", "L">>,
     <<"I", "n", "t", "e", "g", "e", "r">>, <<"P", "a", "r", "t", "1", "0">>,
     <<"B", "E", "G", "I", "N", "N", "E", "R">>, <<"b", "e", "g", "i", "n">>,
     <<"D", "i", "v">>, <<"E", "N">>, <<"E", "N", "D", "1">>,
     <<"V", "A", "R", "S">>, <<"x">>}

\* the longest run of whitespace put between two tokens
MaxPad == 2

\* the runs of whitespace: blanks and line feeds
Pads == UNION {[1..n -> {" ", "\n"}] : n \in 0..MaxPad}

\* the texts put after a complete expression or compound statement
Extras ==
    {<<"4">>, <<")">>, <<"(">>, <<"x">>, <<";">>, <<".">>, <<":", "=">>,
     <<"E", "N", "D">>}

\* the forms that fail whatever their operands are: a reference to z that
\* nothing assigned, x := x op1 b, and an expression cut short
FailingForms ==
    {"unbound", "declared_unbound", "unbound_expr", "self", "open_paren"}

Inputs ==
    {Raw(txt) : txt \in SampleTexts \cup ShortTexts \cup Words}
    \cup {Input(form, <<>>, a, op, b, "Plus", IntOperand(0), <<>>) :
            form \in {"assign", "assign_semi", "program"},
            a \in SmallInts, b \in SmallInts, op \in BinaryOperators}
    \cup {Input(form, <<>>, a, op, IntOperand(1), "Plus", IntOperand(0), <<>>) :
            form \in FailingForms, a \in SmallInts, op \in BinaryOperators}
    \cup {Input("dangling", <<>>, a, op, IntOperand(0), "Plus", IntOperand(0),
                 <<>>) :
            a \in SmallInts, op \in BinaryOperators}
    \cup {Input("sequence", <<>>, a, op1, b, op2, c, <<>>) :
            a \in SmallInts, b \in SmallInts,
            c \in {IntOperand(0), IntOperand(1)},
            op1 \in BinaryOperators, op2 \in {"Minus", "IntegerDivide"}}
    \cup {Input("nested", <<>>, a, op1, b, "Minus", IntOperand(1), <<>>) :
            a \in SmallInts, b \in SmallInts, op1 \in BinaryOperators}
    \cup {Input("trailing", txt, a, op, IntOperand(1), "Plus", IntOperand(0),
                 <<>>) :
            txt \in Extras, a \in SmallInts, op \in BinaryOperators}
    \cup {Input("trailing_compound", txt, IntOperand(0), "Plus", IntOperand(0),
                 "Plus", IntOperand(0), <<>>) :
            txt \in Extras}
    \cup {Input(form, txt, a, op, IntOperand(1), "Plus", IntOperand(0), <<>>) :
            form \in {"padded_lead", "padded_mid", "padded_trail"},
            txt \in Pads, a \in SmallInts,
            op \in BinaryOperators \ {"IntegerDivide"}}
    \cup {Input("padded_assign", txt, a, "Plus", IntOperand(0), "Plus",
                 IntOperand(0), <<>>) :
            txt \in Pads, a \in SmallInts}
    \cup {Binary(a, op, b) :
            a \in SmallInts \cup BigInts, b \in SmallInts \cup BigInts,
            op \in BinaryOperators}
    \cup {Binary(a, op, b) :
            a \in SmallInts \cup Halves, b \in Halves, op \in BinaryOperators}
    \cup {Binary(a, op, b) : a \in Halves, b \in SmallInts, op \in BinaryOperators}
    \cup {Ternary(form, a, op1, b, op2, c) :
            form \in {"chain", "left", "right"},
            a \in SmallInts, b \in SmallInts, c \in SmallInts,
            op1 \in BinaryOperators, op2 \in BinaryOperators}
    \cup {Signed("signed", signs, a, "Plus", IntOperand(0)) :
            signs \in SignRuns, a \in SmallInts \cup Halves}
    \cup {Signed(form, signs, a, op, b) :
            form \in {"signed_left", "signed_right", "signed_paren"},
            signs \in SignRuns, a \in SmallInts, b \in SmallInts,
            op \in BinaryOperators}

\* the text of a generated statement list, of an expression cut short or
\* followed by the text txt, and of tokens with the whitespace txt around
RenderStatements(in) ==
    LET a == OperandText(in.a)
        b == OperandText(in.b)
        c == OperandText(in.c)
        op1 == OperatorText(in.op1)
        op2 == OperatorText(in.op2)
        pad == in.txt
        BeginText == <<"B", "E", "G", "I", "N">>
        EndText == <<"E", "N", "D">>
        AssignText == <<" ", ":", "=", " ">>
        NextStatement == <<";", " ">>
        Header(names) ==
            <<"P", "R", "O", "G", "R", "A", "M", " ", "P", ";", " ",
              "V", "A", "R", " ">> \o names
                \o <<" ", ":", " ", "I", "N", "T", "E", "G", "E", "R", ";", " ">>
        Compound(statements) ==
            BeginText \o <<" ">> \o statements \o <<" ">> \o EndText
        x_a == <<"x">> \o AssignText \o a
        x_a_b == <<"x">> \o AssignText \o a \o op1 \o b
        y_x_b == <<"y">> \o AssignText \o <<"x">> \o op1 \o b
        y_z_b == <<"y">> \o AssignText \o <<"z">> \o op1 \o b
        x_y_c == <<"x">> \o AssignText \o <<"y">> \o op2 \o c
    IN CASE in.form = "assign" -> Compound(x_a_b) \o <<".">>
         [] in.form = "assign_semi" -> Compound(x_a_b \o <<";">>) \o <<".">>
         [] in.form = "sequence" ->
                Compound(x_a \o NextStatement \o y_x_b \o NextStatement
                         \o x_y_c) \o <<".">>
         [] in.form = "nested" ->
                Compound(Compound(x_a \o NextStatement \o y_x_b)
                         \o NextStatement \o x_y_c) \o <<".">>
         [] in.form = "program" ->
                Header(<<"x", ",", " ", "y">>)
                    \o Compound(x_a \o NextStatement \o y_x_b) \o <<".">>
         [] in.form = "unbound" ->
                Compound(x_a \o NextStatement \o y_z_b) \o <<".">>
         [] in.form = "declared_unbound" ->
                Header(<<"z">>)
                    \o Compound(x_a \o NextStatement \o y_z_b) \o <<".">>
         [] in.form = "unbound_expr" -> <<"z">> \o op1 \o b
         [] in.form = "self" ->
                Compound(<<"x">> \o AssignText \o <<"x">> \o op1 \o b)
                    \o <<".">>
         [] in.form = "dangling" -> a \o <<" ">> \o OperatorChars(in.op1)
         [] in.form = "open_paren" -> <<"(">> \o a \o op1 \o b
         [] in.form = "trailing" -> a \o op1 \o b \o <<" ">> \o in.txt
         [] in.form = "trailing_compound" ->
                BeginText \o <<" ">> \o EndText \o <<".", " ">> \o in.txt
         [] in.form = "padded_lead" -> pad \o a \o OperatorChars(in.op1) \o b
         [] in.form = "padded_mid" ->
                a \o pad \o OperatorChars(in.op1) \o pad \o b
         [] in.form = "padded_trail" -> a \o OperatorChars(in.op1) \o b \o pad
         [] in.form = "padded_assign" ->
                pad \o BeginText \o pad \o <<" ", "x">> \o pad
                    \o <<":", "=">> \o pad \o a \o pad \o <<" ">>
                    \o EndText \o pad \o <<".">> \o pad

\* the text of an input
Render(in) ==
    LET a == OperandText(in.a)
        b == OperandText(in.b)
        c == OperandText(in.c)
        op1 == OperatorText(in.op1)
        op2 == OperatorText(in.op2)
    IN CASE in.form = "raw" -> in.txt
         [] in.form = "binary" -> a \o op1 \o b
         [] in.form = "chain" -> a \o op1 \o b \o op2 \o c
         [] in.form = "left" -> <<"(">> \o a \o op1 \o b \o <<")">> \o op2 \o c
         [] in.form = "right" -> a \o op1 \o <<"(">> \o b \o op2 \o c \o <<")">>
         [] in.form = "signed" -> in.signs \o a
         [] in.form = "signed_left" -> in.signs \o a \o op1 \o b
         [] in.form = "signed_right" -> a \o op1 \o in.signs \o b
         [] in.form = "signed_paren" ->
                in.signs \o <<"(">> \o a \o op1 \o b \o <<")">>
         [] OTHER -> RenderStatements(in)

-----------------------------------------------------------------------------
(* The driver: the calls the tests and main make, one action for each *)

\* no token, no parse and no result yet
NoToken == Token("None", StrValue(<<>>))
NoTree == [st |-> "None", node |-> NoOp]
NoVisit == [st |-> "None", v |-> Sentinel, scope |-> EmptyScope, msg |-> ""]
NoResult == [st |-> "None", value |-> PosZero, msg |-> ""]

\* how a call that does not return leaves the driver
Aborted(st) == IF st = "Hang" THEN "hang" ELSE "panic"

Init ==
    /\ pc = "start"
    /\ input = Raw(<<>>)
    /\ text = <<>>
    /\ pos = 0
    /\ current_char = NUL
    /\ token = NoToken
    /\ current_token = NoToken
    /\ tree = NoTree
    /\ global_scope = EmptyScope
    /\ visited = NoVisit
    /\ result = NoResult
    /\ eof_calls = 0

\* Lexer::new(text)
LexerNew ==
    /\ pc = "start"
    /\ \E in \in Inputs :
        \E L \in {NewLexer(Render(in))} :
            /\ input' = in
            /\ text' = Render(in)
            /\ pos' = L.pos
            /\ current_char' = L.current_char
            /\ pc' = IF L.st = "Ok" THEN "lexer" ELSE Aborted(L.st)
    /\ UNCHANGED <<token, current_token, tree, global_scope, visited, result,
                   eof_calls>>

\* the lexer as the fields hold it
LexerNow == [pos |-> pos, current_char |-> current_char, st |-> "Ok"]

\* the driver calls on after the end of the text as often as this
MaxEOFCalls == 3

\* the call found no character left: EOF at the end of the text
Exhausted(g) == g.tok = EOFToken /\ g.L.current_char = NUL

\* lexer.get_next_token(), called by the driver itself as the lexer's tests do
GetNextToken ==
    /\ pc \in {"lexer", "lexing"}
    /\ eof_calls < MaxEOFCalls
    /\ \E g \in {get_next_token(text, LexerNow)} :
          IF g.L.st = "Ok"
          THEN /\ pc' = "lexing"
               /\ pos' = g.L.pos
               /\ current_char' = g.L.current_char
               /\ token' = g.tok
               /\ eof_calls' = IF Exhausted(g) THEN eof_calls + 1 ELSE eof_calls
          ELSE /\ pc' = Aborted(g.L.st)
               /\ UNCHANGED <<pos, current_char, token, eof_calls>>
    /\ UNCHANGED <<input, text, current_token, tree, global_scope, visited,
                   result>>

\* Parser::new(&mut lexer), on a lexer no token was taken from
ParserNew ==
    /\ pc = "lexer"
    /\ \E p \in {NewParser(text, LexerNow)} :
          IF p.st = "Ok"
          THEN /\ pc' = "parser"
               /\ pos' = p.ps.L.pos
               /\ current_char' = p.ps.L.current_char
               /\ current_token' = p.ps.current_token
          ELSE /\ pc' = Aborted(p.st)
               /\ UNCHANGED <<pos, current_char, current_token>>
    /\ UNCHANGED <<input, text, token, tree, global_scope, visited, result,
                   eof_calls>>

\* the parser as the fields hold it
ParserNow == [L |-> LexerNow, current_token |-> current_token]

\* parser.parse(), called by the driver itself as the parser's tests do
Parse ==
    /\ pc = "parser"
    /\ \E p \in {parse(text, ParserNow)} :
          IF p.st \in {"Ok", "Err"}
          THEN /\ pc' = "parsed"
               /\ pos' = p.ps.L.pos
               /\ current_char' = p.ps.L.current_char
               /\ current_token' = p.ps.current_token
               /\ tree' = [st |-> p.st, node |-> p.node]
          ELSE /\ pc' = Aborted(p.st)
               /\ UNCHANGED <<pos, current_char, current_token, tree>>
    /\ UNCHANGED <<input, text, token, global_scope, visited, result,
                   eof_calls>>

\* Interpreter::new(&mut parser)
InterpreterNew ==
    /\ pc = "parser"
    /\ pc' = "interpreter"
    /\ global_scope' = EmptyScope
    /\ UNCHANGED <<input, text, pos, current_char, token, current_token, tree,
                   visited, result, eof_calls>>

\* interpret, after a parse that returned Ok(tree): the visit of the tree
InterpretTree(p, overflow_checks) ==
    \E v \in {visit(p.node, global_scope, overflow_checks)} :
        /\ visited' = v
        /\ global_scope' = v.scope
        /\ IF v.st = "Panic"
           THEN pc' = "panic" /\ UNCHANGED result
           ELSE pc' = "done" /\ result' = interpret_result(v)

\* interpreter.interpret(): the parse, then the visit of the tree, in a build
\* with or without overflow checks
Interpret ==
    /\ pc = "interpreter"
    /\ \E overflow_checks \in BOOLEAN :
        \E p \in {parse(text, ParserNow)} :
           IF p.st \in {"Panic", "Hang"}
           THEN /\ pc' = Aborted(p.st)
                /\ UNCHANGED <<pos, current_char, current_token, global_scope,
                               visited, result>>
           ELSE /\ pos' = p.ps.L.pos
                /\ current_char' = p.ps.L.current_char
                /\ current_token' = p.ps.current_token
                /\ IF p.st = "Err"
                   THEN /\ pc' = "done"
                        /\ result' = Err(ParserErrorText)
                        /\ UNCHANGED <<global_scope, visited>>
                   ELSE InterpretTree(p, overflow_checks)
    /\ UNCHANGED <<input, text, token, tree, eof_calls>>

Next ==
    \/ LexerNew
    \/ GetNextToken
    \/ ParserNew
    \/ Parse
    \/ InterpreterNew
    \/ Interpret

Spec == Init /\ [][Next]_vars

-----------------------------------------------------------------------------
(* What the texts should give *)

\* the run on the text has ended: interpret returned, or a call did not
Finished == pc \in {"done", "panic", "hang"}

\* the input is "a op1 b" with integer literals a and b
IntegerBinary ==
    input.form = "binary" /\ ~input.a.half /\ ~input.b.half

\* a literal as an operand that cannot fail
Lit(a) == Value(OperandValue(a))

\* the outcome of l op r on two outcomes, the left one first
Applied(op, l, r) ==
    IF l.st # "Ok" THEN l
    ELSE IF r.st # "Ok" THEN r
    ELSE apply_binary_op(op, l.v, r.v, TRUE)

\* (a op1 b) op2 c
LeftGrouped(in) ==
    Applied(in.op2, Applied(in.op1, Lit(in.a), Lit(in.b)), Lit(in.c))

\* a op1 (b op2 c)
RightGrouped(in) ==
    Applied(in.op1, Lit(in.a), Applied(in.op2, Lit(in.b), Lit(in.c)))

\* o negated once for each '-' of the run
Negated(signs, o) ==
    IF o.st = "Ok" /\ Cardinality({i \in 1..Len(signs) : signs[i] = "-"}) % 2 = 1
    THEN neg(o.v, TRUE)
    ELSE o

\* interpret returned the value v, with its tag
Returns(v) ==
    /\ pc = "done"
    /\ visited.st = "Ok"
    /\ visited.v = v
    /\ result = Ok(AsF64(v))

\* the run ended as the outcome o: its value returned, or a panic
Agrees(o) == IF o.st = "Ok" THEN Returns(o.v) ELSE pc = "panic"

\* whether the i32 v is the exact sum, difference, product of a and b
ExactSum(v, a, b) == SubFits(v, a) /\ v - a = b
ExactDifference(v, a, b) == AddFits(v, b) /\ v + b = a
ExactProduct(v, a, b) == MulFits(a, b) /\ v = a * b

\* the tree of a run of signs over a node, the first sign outermost
SignToken(c) == Token(IF c = "-" THEN "Minus" ELSE "Plus", StrValue(<<c>>))

RECURSIVE NestedUnaryOp(_, _)
NestedUnaryOp(signs, node) ==
    IF signs = <<>> THEN node
    ELSE [type |-> "UnaryOp", node |-> NestedUnaryOp(Tail(signs), node),
          token |-> SignToken(Head(signs))]

NumNode(a) == [type |-> "Num", num |-> OperandValue(a)]
OperatorToken(kind) == Token(kind, StrValue(OperatorChars(kind)))

\* the parse returned Ok(node)
Parsed(node) == pc = "parsed" /\ tree = [st |-> "Ok", node |-> node]

\* C1: for integer literals a and b, "a + b", "a - b" and "a * b" give the
\* exact sum, difference and product as an Integer.
C1_ExactIntegerArithmetic ==
    (Finished /\ IntegerBinary
        /\ input.op1 \in {"Plus", "Minus", "Multiply"})
    => /\ pc = "done"
       /\ visited.st = "Ok"
       /\ visited.v.tag = "Integer"
       /\ result = Ok(AsF64(visited.v))
       /\ CASE input.op1 = "Plus" ->
                 ExactSum(visited.v.n, input.a.k, input.b.k)
            [] input.op1 = "Minus" ->
                 ExactDifference(visited.v.n, input.a.k, input.b.k)
            [] input.op1 = "Multiply" ->
                 ExactProduct(visited.v.n, input.a.k, input.b.k)

\* the texts whose '/' or DIV has a right operand that is zero
ZeroDivisor ==
    \/ input \in {Raw(TextFloatDivByZero), Raw(TextIntDivByZero)}
    \/ /\ IntegerBinary
       /\ input.op1 \in {"FloatDivide", "IntegerDivide"}
       /\ input.b.k = 0

\* C2: when the right operand of '/' or DIV is zero, interpret returns an
\* error and never a number.
C2_DivisionByZeroIsAnError ==
    (Finished /\ ZeroDivisor) => (pc = "done" /\ result.st = "Err")

\* the texts that hold '$', a character no rule of the lexer names, and
\* otherwise digits, operators, parentheses and blanks
HoldsUnknownChar ==
    /\ input.form = "raw"
    /\ \E i \in 1..Len(text) : text[i] = "$"
    /\ \A i \in 1..Len(text) :
          text[i] \in {"$", "3", "5", "+", "-", "(", ")", " ", "."}

\* C3: a text that holds an unrecognised character ends in an error; "3 $ 5"
\* gives no number.
C3_UnknownCharIsAnError ==
    (Finished /\ HoldsUnknownChar) => (pc = "done" /\ result.st = "Err")

\* C4: for every text, Lexer::new, Parser::new, parse and interpret each
\* return; none panics or fails to return.
C4_EveryStageReturns == pc \notin {"panic", "hang"}

\* C5: for integer literals a and b, b not zero, "a DIV b" gives the quotient
\* truncated toward zero as an Integer, also when a sign makes an operand
\* negative; "3 DIV 2" is 1.
C5_IntegerDivisionTruncates ==
    /\ (Finished /\ IntegerBinary /\ input.op1 = "IntegerDivide"
           /\ input.b.k # 0)
       => Returns(Integer(input.a.k \div input.b.k))
    /\ (Finished /\ input.form \in {"signed_left", "signed_right"}
           /\ input.signs = <<"-">> /\ input.op1 = "IntegerDivide"
           /\ input.b.k # 0)
       => Returns(Integer(-(input.a.k \div input.b.k)))
    /\ (Finished /\ input = Raw(TextDivision)) => Returns(Integer(1))

C5_Witness ==
    /\ pc = "done"
    /\ input = Signed("signed_left", <<"-">>, IntOperand(1), "IntegerDivide",
                      IntOperand(2))
    /\ visited.v = Integer(0)

\* C6: for integer literals a and b, b not zero, "a / b" gives the Real a/b,
\* also when b divides a; "3 / 2" is 1.5.
C6_RealDivision ==
    /\ (Finished /\ IntegerBinary /\ input.op1 = "FloatDivide"
           /\ input.b.k # 0)
       => Returns(Real(Ratio(input.a.k, input.b.k)))
    /\ (Finished /\ input = Raw(TextRealDivision))
       => Returns(Real(Ratio(3, 2)))

C6_Witness ==
    /\ pc = "done"
    /\ input = Binary(IntOperand(2), "FloatDivide", IntOperand(1))
    /\ visited.v = Real(Ratio(2, 1))

\* C7: '*', '/' and DIV bind tighter than binary '+' and '-': "a + b * c" is
\* a + (b * c) and "a * b + c" is (a * b) + c; "3 + 1 * 2" is 5.
C7_Precedence ==
    /\ (Finished /\ input.form = "chain"
           /\ input.op1 \in ExprOperators /\ input.op2 \in TermOperators)
       => Agrees(RightGrouped(input))
    /\ (Finished /\ input.form = "chain"
           /\ input.op1 \in TermOperators /\ input.op2 \in ExprOperators)
       => Agrees(LeftGrouped(input))
    /\ (Finished /\ input = Raw(TextPrecedence)) => Returns(Integer(5))

C7_Witness ==
    /\ pc = "done"
    /\ input = Ternary("chain", IntOperand(1), "Plus", IntOperand(2),
                       "Multiply", IntOperand(2))
    /\ visited.v = Integer(5)

\* C8: binary operators of one precedence level group left to right:
\* "a - b - c" is (a - b) - c and "a DIV b DIV c" is (a DIV b) DIV c;
\* "10 - 3 - 2" is 5.
C8_LeftToRight ==
    /\ (Finished /\ input.form = "chain"
           /\ \/ {input.op1, input.op2} \subseteq ExprOperators
              \/ {input.op1, input.op2} \subseteq TermOperators)
       => Agrees(LeftGrouped(input))
    /\ (Finished /\ input = Raw(TextAssociativity)) => Returns(Integer(5))

C8_Witness ==
    /\ pc = "done"
    /\ input = Ternary("chain", IntOperand(2), "Minus", IntOperand(1),
                       "Minus", IntOperand(1))
    /\ visited.v = Integer(0)

\* C9: a run of unary signs before a factor parses into nested UnaryOp nodes,
\* the first sign outermost, and binds tighter than any binary operator; its
\* value is the factor negated once for each '-'; "5 - - - + - (3 + 4) - +2"
\* is 10.
C9_UnarySigns ==
    /\ (pc = "parsed" /\ input.form = "signed")
       => Parsed(NestedUnaryOp(input.signs, NumNode(input.a)))
    /\ (Finished /\ input.form = "signed")
       => Agrees(Negated(input.signs, Lit(input.a)))
    /\ (Finished /\ input.form = "signed_left")
       => Agrees(Applied(input.op1, Negated(input.signs, Lit(input.a)),
                         Lit(input.b)))
    /\ (Finished /\ input.form = "signed_right")
       => Agrees(Applied(input.op1, Lit(input.a),
                         Negated(input.signs, Lit(input.b))))
    /\ (Finished /\ input.form = "signed_paren")
       => Agrees(Negated(input.signs,
                         Applied(input.op1, Lit(input.a), Lit(input.b))))
    /\ (Finished /\ input = Raw(TextUnaryChain)) => Returns(Integer(10))

C9_Witness ==
    /\ pc = "done"
    /\ input = Raw(TextUnaryChain)
    /\ visited.v = Integer(10)

\* C10: "(e)" is one factor with the value of e, whatever the operators
\* around it and however deep: "(a + b) * c" is (a + b) * c; "(3 + 5) * 2"
\* is 16.
C10_Parentheses ==
    /\ (pc = "parsed" /\ input.form = "left")
       => Parsed(BinaryOp(BinaryOp(NumNode(input.a),
                                   OperatorToken(input.op1),
                                   NumNode(input.b)),
                          OperatorToken(input.op2), NumNode(input.c)))
    /\ (Finished /\ input.form = "left") => Agrees(LeftGrouped(input))
    /\ (Finished /\ input.form = "right") => Agrees(RightGrouped(input))
    /\ (Finished /\ input = Raw(TextParentheses)) => Returns(Integer(16))
    /\ (Finished /\ input = Raw(TextNestedParentheses))
       => Returns(Real(Ratio(22, 1)))

C10_Witness ==
    /\ pc = "done"
    /\ input = Raw(TextParentheses)
    /\ visited.v = Integer(16)

\* the environment that binds x, and the one that binds x and y
BindsX(vx) == <<"x">> :> vx
BindsXY(vx, vy) == (<<"x">> :> vx) @@ (<<"y">> :> vy)

\* the run ended with the sentinel returned and the environment scope
EndsWith(scope) ==
    /\ pc = "done"
    /\ result = Ok(PosZero)
    /\ global_scope = scope

\* C11: after a successful run of "BEGIN v := e END.", with or without a ';'
\* before END, the environment maps v to the value of e; after
\* "BEGIN a := 5; END." the name a holds 5.
C11_AssignmentBinds ==
    /\ (Finished /\ input.form \in {"assign", "assign_semi"})
       => \E e \in {Applied(input.op1, Lit(input.a), Lit(input.b))} :
             IF e.st = "Ok" THEN EndsWith(BindsX(e.v)) ELSE pc = "panic"
    /\ (Finished /\ input = Raw(TextAssignment))
       => EndsWith(<<"a">> :> Integer(5))

C11_Witness ==
    /\ pc = "done"
    /\ input.form = "assign_semi"
    /\ input.a = IntOperand(2) /\ input.op1 = "Multiply" /\ input.b = IntOperand(2)
    /\ global_scope = BindsX(Integer(4))

\* what "x := a; y := x op1 b; x := y op2 c" leaves: the outcomes of the
\* second and the third right-hand side
SecondValue(in) == Applied(in.op1, Lit(in.a), Lit(in.b))
ThirdValue(in) == Applied(in.op2, SecondValue(in), Lit(in.c))

\* C12: the statements of a compound statement, nested ones included, run in
\* source order, each right-hand side on the environment the statements
\* before it left: "x := a; y := x op1 b; x := y op2 c" ends with
\* x = (a op1 b) op2 c and y = a op1 b, and the program P of the example ends
\* with exactly x = 5, y = 15, z = 5.
C12_SourceOrder ==
    /\ (Finished /\ input.form \in {"sequence", "nested"})
       => IF ThirdValue(input).st = "Ok"
          THEN EndsWith(BindsXY(ThirdValue(input).v, SecondValue(input).v))
          ELSE pc = "panic"
    /\ (Finished /\ input.form = "program")
       => IF SecondValue(input).st = "Ok"
          THEN EndsWith(BindsXY(OperandValue(input.a), SecondValue(input).v))
          ELSE pc = "panic"
    /\ (Finished /\ input = Raw(TextProgramP))
       => EndsWith((<<"x">> :> Integer(5)) @@ (<<"y">> :> Integer(15))
                   @@ (<<"z">> :> Integer(5)))

C12_Witness ==
    /\ pc = "done"
    /\ input.form = "nested"
    /\ input.a = IntOperand(1) /\ input.op1 = "Plus" /\ input.b = IntOperand(2)
    /\ input.op2 = "Minus" /\ input.c = IntOperand(1)
    /\ global_scope = BindsXY(Integer(2), Integer(3))

\* interpret returned Err("Variable not found")
VariableNotFound == pc = "done" /\ result = Err("Variable not found")

\* C13: a reference to a name fails with "Variable not found" when no
\* assignment to the name ran before it, declared in VAR or not (a
\* declaration binds nothing), and gives the value assigned last when one did.
C13_UnboundReference ==
    /\ (Finished /\ input.form \in {"unbound", "declared_unbound",
                                    "unbound_expr", "self"})
       => VariableNotFound
    /\ (Finished /\ input.form \in {"sequence", "nested", "program"})
       => ~VariableNotFound
    /\ (Finished /\ input = Raw(TextReassigned))
       => EndsWith((<<"a">> :> Integer(2)) @@ (<<"b">> :> Integer(2)))
    /\ (Finished /\ input = Raw(TextProgramP)) => <<"z">> \in DOMAIN global_scope
    /\ (pc = "done" /\ input.form = "declared_unbound")
       => <<"z">> \notin DOMAIN global_scope

C13_Witness ==
    /\ VariableNotFound
    /\ input.form = "declared_unbound"
    /\ input.a = IntOperand(1) /\ input.op1 = "Plus" /\ input.b = IntOperand(1)

\* the texts that end where an operand or a closing token is due
EndsEarly ==
    \/ input.form = "raw" /\ input.txt \in EarlyEndTexts
    \/ input.form \in {"dangling", "open_paren"}
    \/ /\ input.form = "raw"
       /\ input.txt \in ShortTexts
       /\ input.txt # <<>>
       /\ \A i \in 1..Len(input.txt) : input.txt[i] \in {"3", "+", "(", ")"}
       /\ input.txt[Len(input.txt)] \in {"+", "("}

\* parse returned Err and no tree; interpret returned the parser's Err and
\* ran nothing
SyntaxError ==
    /\ pc = "parsed" => tree = [st |-> "Err", node |-> NoOp]
    /\ Finished => /\ pc = "done"
                   /\ result = Err(ParserErrorText)
                   /\ visited = NoVisit
                   /\ global_scope = EmptyScope

\* C14: when the text ends where the grammar still requires an operand or a
\* closing token ("3 +", "-", "(3", "BEGIN a := "), Parser::parse returns Err
\* and no tree, and interpret returns Err.
C14_EarlyEndIsAnError == EndsEarly => SyntaxError

C14_Witness ==
    /\ pc = "done"
    /\ input = Raw(<<"B", "E", "G", "I", "N", " ", "a", " ", ":", "=", " ">>)
    /\ result = Err(ParserErrorText)

\* the texts with a token after a complete expression or dotted compound
HasTrailingToken ==
    \/ input.form = "raw" /\ input.txt \in TrailingTexts
    \/ input.form \in {"trailing", "trailing_compound"}

\* C15: parse returns Err whenever a token other than EOF remains after a
\* complete program, dotted compound statement or expression ("3 4", "3 )",
\* "BEGIN END. 5"); it returns Ok only with the EOF token as its current
\* token and EOF as the lexer's next answer.
C15_TrailingTokenIsAnError ==
    /\ HasTrailingToken => SyntaxError
    /\ (pc = "parsed" /\ tree.st = "Ok")
       => /\ current_token = EOFToken
          /\ get_next_token(text, LexerNow).tok = EOFToken

C15_Witness ==
    /\ pc = "parsed"
    /\ input = Raw(<<"B", "E", "G", "I", "N", " ", "E", "N", "D", ".", " ", "5">>)
    /\ tree = [st |-> "Err", node |-> NoOp]

\* C16: once get_next_token has returned EOF because the text is exhausted,
\* every later call returns EOF again, without a panic and without a change
\* of pos or current_char.
C16_EOFAgain ==
    [][(pc = "lexing" /\ eof_calls >= 1)
       => /\ token = EOFToken
          /\ current_char = NUL
          /\ pc' = "lexing"
          /\ token' = EOFToken
          /\ pos' = pos
          /\ current_char' = current_char
          /\ eof_calls' = eof_calls + 1]_vars

C16_Witness ==
    /\ pc = "lexing"
    /\ input = Raw(<<"3", "+", "1">>)
    /\ eof_calls = MaxEOFCalls
    /\ token = EOFToken
    /\ pos = 3

\* C17: when a run fails after some assignments have run
\* ("BEGIN a := 5; b := c END." with c unbound), interpret returns Err and the
\* environment keeps the earlier bindings (a = 5); the assignment that failed
\* binds nothing.
C17_FailureKeepsBindings ==
    /\ (Finished /\ input = Raw(TextPartialFailure))
       => /\ VariableNotFound
          /\ global_scope = <<"a">> :> Integer(5)
    /\ (Finished /\ input.form \in {"unbound", "declared_unbound"})
       => /\ pc = "done"
          /\ result.st = "Err"
          /\ global_scope = BindsX(OperandValue(input.a))
    /\ (Finished /\ input.form = "self")
       => /\ pc = "done"
          /\ result.st = "Err"
          /\ global_scope = EmptyScope

C17_Witness ==
    /\ pc = "done"
    /\ input = Raw(TextPartialFailure)
    /\ result.st = "Err"
    /\ DOMAIN global_scope = {<<"a">>}

\* the kind of a word: the keyword it is, letter for letter, or Identifier
KindOfWord(s) ==
    CASE s = <<"P", "R", "O", "G", "R", "A", "M">> -> "Program"
      [] s = <<"V", "A", "R">> -> "Var"
      [] s = <<"B", "E", "G", "I", "N">> -> "Begin"
      [] s = <<"E", "N", "D">> -> "End"
      [] s = <<"D", "I", "V">> -> "IntegerDivide"
      [] s = <<"I", "N", "T", "E", "G", "E", "R">> -> "Integer"
      [] s = <<"R", "E", "A", "L">> -> "Real"
      [] OTHER -> "Identifier"

\* the token is a keyword or an identifier
IsWord(tok) ==
    /\ tok.value.vt = "Str"
    /\ tok.kind \in {"Program", "Var", "Begin", "End", "IntegerDivide",
                     "Integer", "Real", "Identifier"}

\* the word s ends at pos and no alphanumeric character follows it
WordEndsAt(s, p) ==
    /\ Len(s) >= 1
    /\ p >= Len(s)
    /\ s = SubSeq(text, p - Len(s) + 1, p)
    /\ IsAlphabetic(s[1])
    /\ \A i \in 1..Len(s) : IsAlphanumeric(s[i])
    /\ p < Len(text) => ~IsAlphanumeric(text[p + 1])

BinaryTree(in) ==
    BinaryOp(NumNode(in.a), OperatorToken(in.op1), NumNode(in.b))

TreeOfText == parse(text, NewParser(text, NewLexer(text)).ps)

\* C20: a successful run of a compound statement or of a PROGRAM returns the
\* sentinel 0 from interpret, whatever its statements; a bare expression
\* returns its value.
C20_StatementsReturnZero ==
    /\ (pc = "done" /\ result.st = "Ok"
           /\ TreeOfText.node.type \in {"Compound", "Program"})
       => visited.v = Sentinel /\ result = Ok(PosZero)
    /\ (Finished /\ input.form \in {"assign", "assign_semi", "sequence",
                                    "nested", "program", "padded_assign"})
       => pc = "panic" \/ result = Ok(PosZero)
    /\ (Finished /\ input \in {Raw(TextAssignment), Raw(TextProgram),
                               Raw(TextProgramP), Raw(TextReassigned)})
       => pc = "done" /\ result = Ok(PosZero)
    /\ (Finished /\ IntegerBinary /\ input.a \in SmallInts
           /\ input.b \in SmallInts)
       => Agrees(Applied(input.op1, Lit(input.a), Lit(input.b)))

C20_Witness ==
    /\ pc = "done"
    /\ input.form = "assign"
    /\ input.a = IntOperand(2) /\ input.op1 = "Plus" /\ input.b = IntOperand(2)
    /\ global_scope = BindsX(Integer(4))
    /\ result = Ok(PosZero)

\* C21: for '+', '-' and '*' the result is an Integer when both operands are
\* Integers and a Real in the three other cases; for '/' it is a Real in all
\* four.
C21_ResultTag ==
    (pc = "done" /\ visited.st = "Ok" /\ input.form = "binary"
        /\ input.op1 # "IntegerDivide")
    => visited.v.tag =
          IF input.op1 # "FloatDivide" /\ ~input.a.half /\ ~input.b.half
          THEN "Integer" ELSE "Real"

C21_Witness ==
    /\ pc = "done"
    /\ input.form = "binary"
    /\ input.a = IntOperand(2) /\ input.op1 = "Plus" /\ input.b = HalfOperand(1)
    /\ visited.v = Real(Ratio(7, 2))

\* a literal as the exact ratio it stands for
OperandRatio(a) ==
    IF a.half THEN [n |-> 2 * a.k + 1, d |-> 2] ELSE [n |-> a.k, d |-> 1]

\* the quotient a / b of two literals, truncated toward zero
TruncatedQuotient(a, b) ==
    (OperandRatio(a).n * OperandRatio(b).d)
        \div (OperandRatio(a).d * OperandRatio(b).n)

\* C22: whatever the tags of the operands, with a right operand that is not
\* zero "x DIV y" gives the Integer that is x / y truncated toward zero.
C22_DivTruncatesTheQuotient ==
    (Finished /\ input.form = "binary" /\ input.op1 = "IntegerDivide"
        /\ OperandRatio(input.b).n # 0)
    => Returns(Integer(TruncatedQuotient(input.a, input.b)))

\* the token is a real literal
IsRealLiteral(tok) == tok.kind = "Real" /\ tok.value.vt = "Real"

\* C23: a real literal is a run of digits, a '.' and at least one more
\* digit; "3." is the integer literal 3 with the '.'
\* left to be the next token, a Dot.
C23_RealNeedsADigitAfterTheDot ==
    /\ (pc = "lexing" /\ IsRealLiteral(token))
       => pos >= 1 /\ text[pos] \in AsciiDigits
    /\ (pc = "lexing" /\ eof_calls = 0 /\ input = Raw(<<"3", ".">>))
       => (token = Token("Integer", IntValue(3)) /\ current_char = ".")
          \/ (token = Token("Dot", StrValue(<<".">>)) /\ current_char = NUL)

\* the texts of a declaration part: a literal for the type, no declaration
\* after VAR, no VAR at all, a real assigned to a variable declared INTEGER
ProgramTypedByLiteral ==
    Raw(<<"P", "R", "O", "G", "R", "A", "M", " ", "P", ";", " ", "V", "A",
          "R", " ", "x", " ", ":", " ", "5", ";", " ", "B", "E", "G", "I",
          "N", " ", "E", "N", "D", ".">>)
ProgramEmptyVar ==
    Raw(<<"P", "R", "O", "G", "R", "A", "M", " ", "P", ";", " ", "V", "A",
          "R", " ", "B", "E", "G", "I", "N", " ", "E", "N", "D", ".">>)
ProgramNoVar ==
    Raw(<<"P", "R", "O", "G", "R", "A", "M", " ", "P", ";", " ", "B", "E",
          "G", "I", "N", " ", "E", "N", "D", ".">>)
ProgramRealIntoInteger ==
    Raw(<<"P", "R", "O", "G", "R", "A", "M", " ", "P", ";", " ", "V", "A",
          "R", " ", "x", " ", ":", " ", "I", "N", "T", "E", "G", "E", "R",
          ";", " ", "B", "E", "G", "I", "N", " ", "x", " ", ":", "=", " ",
          "1", ".", "5", " ", "E", "N", "D", ".">>)

\* the parse or the run of the text ended with the parse error
RejectedAsSyntax ==
    /\ pc = "parsed" => tree.st = "Err"
    /\ Finished => pc = "done" /\ result = Err(ParserErrorText)

\* C24: the type keywords are not numeric literals: a literal where a type
\* is due ("VAR x : 5;") and a type keyword where an operand is due
\* ("3 + INTEGER") are both rejected with the parse error.
C24_KeywordsAreNotLiterals ==
    input \in {ProgramTypedByLiteral, Raw(TextTypeKeywordOperand)}
    => RejectedAsSyntax

\* C25: VAR with no declaration after it is a parse error, and a program
\* without the VAR keyword is accepted.
C25_VarNeedsADeclaration ==
    /\ input = ProgramEmptyVar => RejectedAsSyntax
    /\ (input = ProgramNoVar /\ pc = "parsed") => tree.st = "Ok"
    /\ (input = ProgramNoVar /\ Finished) => EndsWith(EmptyScope)

\* a '{' of the text has no '}' after it
UnterminatedComment ==
    \E i \in 1..Len(text) :
        text[i] = "{" /\ \A j \in (i + 1)..Len(text) : text[j] # "}"

\* C26: on a text whose '{' is never closed the lexer still returns, and
\* the run ends with an error result.
C26_OpenCommentTerminates ==
    (input.form = "raw" /\ UnterminatedComment)
    => /\ pc # "hang"
       /\ Finished => pc = "done" /\ result.st = "Err"

\* C29: the lexer is built from the empty text, the first token of the
\* empty text is EOF, and the run on it ends with the parse error.
C29_EmptyTextIsAParseError ==
    input = Raw(<<>>)
    => /\ pc # "panic"
       /\ pc = "lexing" => token = EOFToken
       /\ Finished => result = Err(ParserErrorText)

\* C27: an assignment binds the value of its right-hand side with the tag
\* the evaluation gave it, whatever type the name was declared with, and
\* replaces the earlier binding of the name: x declared INTEGER and assigned
\* 1.5 holds Real 1.5, y declared INTEGER and assigned x / b holds a Real,
\* and a name assigned twice holds the value assigned last.
C27_LastAssignedValue ==
    /\ (Finished /\ input = ProgramRealIntoInteger)
       => EndsWith(BindsX(Real(Ratio(3, 2))))
    /\ (pc = "done" /\ input.form = "program" /\ result.st = "Ok")
       => /\ global_scope[<<"y">>] = SecondValue(input).v
          /\ global_scope[<<"y">>].tag =
                IF input.op1 = "FloatDivide" THEN "Real" ELSE "Integer"
    /\ (pc = "done" /\ input.form \in {"sequence", "nested"}
           /\ result.st = "Ok")
       => global_scope[<<"x">>] = ThirdValue(input).v
    /\ (Finished /\ input = Raw(TextReassigned))
       => EndsWith((<<"a">> :> Integer(2)) @@ (<<"b">> :> Integer(2)))

C27_Witness ==
    /\ pc = "done"
    /\ input = ProgramRealIntoInteger
    /\ global_scope = BindsX(Real(Ratio(3, 2)))

\* the text holds an assignment to name: the word name, whitespace or
\* nothing, then ":="
IsAssignmentTarget(name) ==
    \E p \in Len(name)..Len(text) :
        /\ WordEndsAt(name, p)
        /\ p > Len(name) => ~IsAlphanumeric(text[p - Len(name)])
        /\ \E k \in (p + 1)..(Len(text) - 1) :
              /\ text[k] = ":" /\ text[k + 1] = "="
              /\ \A i \in (p + 1)..(k - 1) : IsWhitespace(text[i])

\* the texts that are one expression, complete or not, with or without a
\* text after it
ExpressionForms ==
    {"binary", "chain", "left", "right", "signed", "signed_left",
     "signed_right", "signed_paren", "unbound_expr", "dangling", "open_paren",
     "trailing", "padded_lead", "padded_mid", "padded_trail"}

\* C28: only an assignment changes the environment, and "v := e" changes the
\* binding of v alone: every bound name is the target of an assignment of
\* the text (the program name and the declared names are not bound), an
\* expression, failed or not, leaves the environment empty, and the
\* assignments after that of a name leave its binding as it was.
C28_OnlyAssignmentsBind ==
    /\ \A name \in DOMAIN global_scope : IsAssignmentTarget(name)
    /\ input.form \in ExpressionForms => global_scope = EmptyScope
    /\ (pc = "done" /\ input.form \in {"sequence", "nested"}
           /\ result.st = "Ok")
       => global_scope[<<"y">>] = SecondValue(input).v
    /\ (pc = "done" /\ input.form = "program" /\ result.st = "Ok")
       => global_scope[<<"x">>] = OperandValue(input.a)

C28_Witness ==
    /\ pc = "done"
    /\ input.form = "declared_unbound"
    /\ result = Err("Variable not found")
    /\ DOMAIN global_scope = {<<"x">>}

=============================================================================
